---- MODULE Spec2Model ----
(***************************************************************************)
(* Pattern algebra and canonical labeling of the GLogS catalogue           *)
(* (glogs/ir/core/src/catalogue/pattern.rs, canonical_label.rs).           *)
(*                                                                         *)
(* A VecMap / BTreeMap is a function whose domain is the set of its keys;  *)
(* iteration is in increasing key order.  A Vec is a sequence.             *)
(* Option<PatternId> is an integer with None == -1, which keeps Rust's     *)
(* derived order None < Some(x).                                           *)
(***************************************************************************)
EXTENDS Integers, Sequences, FiniteSets, TLC

(* ------------------------------ bounds --------------------------------- *)
\* largest vertex id a pattern may carry (ids are 0..MaxVId)
MaxVId == 2
\* largest edge id a pattern may carry (ids are 0..MaxEId)
MaxEId == 2
\* longest edge list handed to from_edges
MaxInput == 2
\* largest edge id in an edge list handed to from_edges
MaxInputEId == 1
\* operations applied to a constructed pattern
MaxSteps == 2
\* largest vertex label
MaxVLabel == 1
\* largest tag id
MaxTag == 1
\* most extend edges of one ExtendStep
MaxExtend == 2
\* longest edge list handed to extend_by_edges
MaxAdded == 1
\* edits applied to a pattern by extend_by_edges / extend_definitely
MaxEdits == 1
\* tagging and removal operations applied to a pattern
MaxTagSteps == 2
MaxPredicate == 1
MaxCount == 2
MaxJoinLen == 2
MaxExtendNum == 3
\* largest vertex id of the patterns whose encodings are compared
MaxIsoVId == 3
\* most edges of the patterns whose encodings are compared
MaxIsoEdges == 6
\* rebuilds of a pattern from a renamed edge list
MaxRenames == 1
\* largest same_label_vertex_limit handed to get_extend_steps
MaxLimit == 2
\* enumerations of extend steps asked of a pattern
MaxEnums == 1
\* largest component of the cost tuples that are added
MaxCost == 1
\* largest node index of a catalogue (nodes are 0..MaxCatNode)
MaxCatNode == 3
\* most vertices of a catalogue pattern
MaxCatSize == 3
\* most approaches of a catalogue
MaxApproaches == 4
\* searches for best approaches run on a catalogue
MaxSearches == 1
\* approaches of a catalogue that plans are generated from
MaxOptApproaches == 3
\* sub-patterns of a pattern outside the catalogue
MaxOffSubs == 2
\* plan generations per run
MaxPlans == 1
\* vertex ids and edge ids that the triangle is built with
MaxTriVId == 3
MaxTriEId == 2

\* vertices and edges of a sampled data graph
MaxGraphV == 3
MaxGraphE == 2
\* most vertices of the pattern a sampled catalogue is built from
MaxSampleSize == 3
\* most workers of a sub-task, and the length of a channel schedule
MaxThreads == 2
MaxSched == 2
\* the record limit handed to the sampler
MaxRecLimit == 1
\* most workers of a sub-task that is executed on its own
MaxExecThreads == 3
\* longest record vector handed to sample_records
MaxRecords == 5

VIds == 0..MaxVId
EIds == 0..MaxEId
VLabels == 0..MaxVLabel
ELabels == {0}
Tags == 0..MaxTag
\* the predicate expressions a vertex or an edge may carry
Predicates == 0..MaxPredicate

(* --------------------------- basic data types -------------------------- *)
None == -1

Out == 0
In == 1

Less == -1
Equal == 0
Greater == 1
\* the outcome of a comparison in which unwrap() meets a vertex id that the
\* manager's maps do not hold (the comparison panics)
Unwound == 2

PatternVertex(id, label) == [id |-> id, label |-> label]

PatternEdge(id, label, start_vertex, end_vertex) ==
  [id |-> id, label |-> label, start_vertex |-> start_vertex, end_vertex |-> end_vertex]

PatternVertexData_default ==
  [group |-> 0, rank |-> 0, out_adjacencies |-> <<>>, in_adjacencies |-> <<>>, tag |-> None,
   predicate |-> None]

PatternEdgeData_default == [rank |-> 0, tag |-> None, predicate |-> None]

\* the value standing for the Option::None that Adjacency::new returns
NoAdjacency == [edge_id |-> None, edge_label |-> None,
                adj_vertex |-> PatternVertex(None, None), direction |-> None]

\* Adjacency::new: the start vertex is tested first, so for an edge whose
\* start and end are the same vertex the direction is always Out
Adjacency_new(src_vertex, edge) ==
  IF src_vertex = edge.start_vertex
  THEN [edge_id |-> edge.id, edge_label |-> edge.label,
        adj_vertex |-> edge.end_vertex, direction |-> Out]
  ELSE IF src_vertex = edge.end_vertex
  THEN [edge_id |-> edge.id, edge_label |-> edge.label,
        adj_vertex |-> edge.start_vertex, direction |-> In]
  ELSE NoAdjacency

(* ------------------------------ map helpers ---------------------------- *)
EmptyMap == <<>>

\* a map / a Vec given by a function constructor, as an explicit value (the
\* model checker otherwise re-evaluates the constructor at every lookup)
Map(f) == f @@ EmptyMap

Vec(s) == s \o <<>>

Insert(m, k, v) == (k :> v) @@ m

Remove(m, k) == Map([x \in DOMAIN m \ {k} |-> m[x]])

ContainsKey(m, k) == k \in DOMAIN m

\* the keys of an integer-keyed map in iteration (increasing) order
SortedSeq(S) ==
  Vec([i \in 1..Cardinality(S) |-> CHOOSE x \in S : Cardinality({y \in S : y < x}) = i - 1])

Min(S) == CHOOSE x \in S : \A y \in S : x <= y

Max(S) == CHOOSE x \in S : \A y \in S : y <= x

cmp(a, b) == IF a < b THEN Less ELSE IF a > b THEN Greater ELSE Equal

\* lexicographic comparison of two integer tuples of the same length
RECURSIVE cmp_tuple(_, _)
cmp_tuple(t1, t2) ==
  IF t1 = <<>> THEN Equal
  ELSE IF Head(t1) # Head(t2) THEN cmp(Head(t1), Head(t2))
  ELSE cmp_tuple(Tail(t1), Tail(t2))

Reverse(s) == Vec([i \in 1..Len(s) |-> s[Len(s) + 1 - i]])

\* the element of a one-element set; { F(x) : x \in {e} } evaluates e once
\* and hands F its value
Only(S) == CHOOSE x \in S : TRUE

\* a for loop over a Vec: f is the loop body, acc what it updates
RECURSIVE FoldLeft(_, _, _)
FoldLeft(f(_, _), acc, s) ==
  IF s = <<>> THEN acc
  ELSE Only({FoldLeft(f, next, Tail(s)) : next \in {f(acc, Head(s))}})

\* slice::sort_by is a stable sort: an element moves behind every element that
\* compares Less and behind the earlier elements that compare Equal
StableSort(s, c(_, _)) ==
  LET pos(i) == Cardinality({j \in 1..Len(s) : c(s[j], s[i]) = Less})
                + Cardinality({j \in 1..(i - 1) : c(s[j], s[i]) = Equal}) + 1
  IN Vec([k \in 1..Len(s) |-> s[CHOOSE i \in 1..Len(s) : pos(i) = k]])

(* ------------------------------- Pattern ------------------------------- *)
Pattern_default ==
  [edges |-> EmptyMap, vertices |-> EmptyMap, edges_data |-> EmptyMap,
   vertices_data |-> EmptyMap, rank_edge_map |-> EmptyMap, rank_vertex_map |-> EmptyMap,
   tag_edge_map |-> EmptyMap, tag_vertex_map |-> EmptyMap]

get_vertices_num(p) == Cardinality(DOMAIN p.vertices)

get_edges_num(p) == Cardinality(DOMAIN p.edges)

\* (unwrap() of the last vertex id: the callers below test for the empty map)
get_max_vertex_id(p) == Max(DOMAIN p.vertices)

\* the first key of the edge map where get_max_edge_id takes the last
get_min_edge_id(p) == IF DOMAIN p.edges = {} THEN 0 ELSE Min(DOMAIN p.edges)

get_max_edge_id(p) == IF DOMAIN p.edges = {} THEN 0 ELSE Max(DOMAIN p.edges)

get_min_vertex_label(p) ==
  IF DOMAIN p.vertices = {} THEN None
  ELSE Min({p.vertices[v].label : v \in DOMAIN p.vertices})

get_vertex_out_degree(p, v) ==
  IF v \in DOMAIN p.vertices_data THEN Len(p.vertices_data[v].out_adjacencies) ELSE 0

get_vertex_in_degree(p, v) ==
  IF v \in DOMAIN p.vertices_data THEN Len(p.vertices_data[v].in_adjacencies) ELSE 0

get_vertex_degree(p, v) == get_vertex_out_degree(p, v) + get_vertex_in_degree(p, v)

\* outgoing adjacencies chained with the incoming ones
adjacencies_iter(p, v) ==
  IF v \in DOMAIN p.vertices_data
  THEN p.vertices_data[v].out_adjacencies \o p.vertices_data[v].in_adjacencies
  ELSE <<>>

(* ------------------------ CanonicalLabelManager ------------------------ *)
\* the closure of update_vertex_adjacencies_order / cmp_adjacencies:
\* (direction, adjacent vertex label, edge label), then the adjacent
\* vertex's group, then its rank (None first)
cmp_adjacencies(m, adj1, adj2) ==
  LET info == cmp_tuple(<<adj1.direction, adj1.adj_vertex.label, adj1.edge_label>>,
                        <<adj2.direction, adj2.adj_vertex.label, adj2.edge_label>>)
      group == cmp(m.vertex_group_map[adj1.adj_vertex.id], m.vertex_group_map[adj2.adj_vertex.id])
  IN IF info # Equal THEN info
     ELSE IF \/ adj1.adj_vertex.id \notin DOMAIN m.vertex_group_map
             \/ adj2.adj_vertex.id \notin DOMAIN m.vertex_group_map
     THEN Unwound
     ELSE IF group # Equal THEN group
     ELSE cmp(m.vertex_rank_map[adj1.adj_vertex.id], m.vertex_rank_map[adj2.adj_vertex.id])

\* sorts every adjacency list; the manager is left panicked when the sort
\* closure unwraps the group of a vertex the maps do not hold
update_vertex_adjacencies_order(m) ==
  LET c(a, b) == cmp_adjacencies(m, a, b)
      lists == m.vertex_adjacencies_map
  IN IF \/ m.panicked
        \/ \E v \in DOMAIN lists : \E i, j \in 1..Len(lists[v]) :
              i < j /\ c(lists[v][i], lists[v][j]) = Unwound
     THEN [m EXCEPT !.panicked = TRUE]
     ELSE [m EXCEPT !.vertex_adjacencies_map =
             Map([v \in DOMAIN lists |-> StableSort(lists[v], c)])]

\* the (label, group) keys of vertex_groups in BTreeMap order
SortedKeys(S) ==
  Vec([i \in 1..Cardinality(S) |->
         CHOOSE k \in S : Cardinality({j \in S : cmp_tuple(j, k) = Less}) = i - 1])

\* vertex ids bucketed by key, each bucket in increasing id order (the
\* order in which vertices_iter pushes them)
GroupsOf(order, key(_)) ==
  Map([k \in {key(order[i]) : i \in 1..Len(order)} |->
         SelectSeq(order, LAMBDA v : key(v) = k)])

\* impl From<&Pattern> for CanonicalLabelManager
CanonicalLabelManager_from(pattern) ==
  LET vs == DOMAIN pattern.vertices
      key(v) == <<pattern.vertices[v].label, 0>>
  IN update_vertex_adjacencies_order(
       [vertex_adjacencies_map |-> Map([v \in vs |-> adjacencies_iter(pattern, v)]),
        vertex_group_map |-> Map([v \in vs |-> 0]),
        vertex_groups |-> GroupsOf(SortedSeq(vs), key),
        has_converged |-> FALSE,
        edge_rank_map |-> Map([e \in DOMAIN pattern.edges |-> None]),
        vertex_rank_map |-> Map([v \in vs |-> None]),
        panicked |-> FALSE])

RECURSIVE cmp_adjacency_lists(_, _, _, _)
cmp_adjacency_lists(m, l1, l2, idx) ==
  IF idx > Len(l1) THEN Equal
  ELSE LET c == cmp_adjacencies(m, l1[idx], l2[idx])
       IN IF c # Equal THEN c ELSE cmp_adjacency_lists(m, l1, l2, idx + 1)

\* label, out degree, in degree, then the sorted adjacencies position by position
cmp_vertices(m, pattern, v1_id, v2_id) ==
  LET head == cmp_tuple(<<pattern.vertices[v1_id].label,
                          get_vertex_out_degree(pattern, v1_id),
                          get_vertex_in_degree(pattern, v1_id)>>,
                        <<pattern.vertices[v2_id].label,
                          get_vertex_out_degree(pattern, v2_id),
                          get_vertex_in_degree(pattern, v2_id)>>)
  IN IF head # Equal THEN head
     ELSE cmp_adjacency_lists(m, m.vertex_adjacencies_map[v1_id],
                              m.vertex_adjacencies_map[v2_id], 1)

\* refined_group without the increments of the vertices that a comparison
\* finds Less
refined_group_forward(m, pattern, vertex_group, initial_group, i) ==
  initial_group
  + Cardinality({j \in (i + 1)..Len(vertex_group) :
                   cmp_vertices(m, pattern, vertex_group[i], vertex_group[j]) = Greater})

\* the group refine_vertex_groups gives the i-th vertex of a bucket: the
\* initial group plus one for every comparison of the pair loop it loses
refined_group(m, pattern, vertex_group, initial_group, i) ==
  initial_group
  + Cardinality({j \in (i + 1)..Len(vertex_group) :
                   cmp_vertices(m, pattern, vertex_group[i], vertex_group[j]) = Greater})
  + Cardinality({j \in 1..(i - 1) :
                   cmp_vertices(m, pattern, vertex_group[j], vertex_group[i]) = Less})

\* concatenation of a sequence of sequences
RECURSIVE Flatten(_)
Flatten(ss) == IF ss = <<>> THEN <<>> ELSE Head(ss) \o Flatten(Tail(ss))

refine_vertex_groups(m, pattern) ==
  LET keys == SortedKeys(DOMAIN m.vertex_groups)
      \* the vertices in the order the two loops visit them
      order == Flatten(Vec([k \in 1..Len(keys) |-> m.vertex_groups[keys[k]]]))
      bucket(v) == CHOOSE k \in DOMAIN m.vertex_groups :
                     \E i \in 1..Len(m.vertex_groups[k]) : m.vertex_groups[k][i] = v
      index(v) == CHOOSE i \in 1..Len(m.vertex_groups[bucket(v)]) :
                     m.vertex_groups[bucket(v)][i] = v
      updated_vertex_group_map ==
        Map([v \in DOMAIN m.vertex_group_map |->
               refined_group(m, pattern, m.vertex_groups[bucket(v)], bucket(v)[2], index(v))])
      key(v) == <<bucket(v)[1], updated_vertex_group_map[v]>>
  IN IF \E k \in DOMAIN m.vertex_groups : \E i, j \in 1..Len(m.vertex_groups[k]) :
          i < j /\ cmp_vertices(m, pattern, m.vertex_groups[k][i], m.vertex_groups[k][j]) = Unwound
     THEN [m EXCEPT !.panicked = TRUE]
     ELSE update_vertex_adjacencies_order(
            [m EXCEPT !.vertex_group_map = updated_vertex_group_map,
                      !.vertex_groups = GroupsOf(order, key),
                      !.has_converged =
                         \A v \in DOMAIN m.vertex_group_map :
                            updated_vertex_group_map[v] = bucket(v)[2]])

RECURSIVE vertex_grouping(_, _)
vertex_grouping(m, pattern) ==
  IF m.has_converged \/ m.panicked THEN m
  ELSE Only({vertex_grouping(refined, pattern) : refined \in {refine_vertex_groups(m, pattern)}})

\* Iterator::min_by returns the first of several equally minimum elements,
\* and vertices are iterated in increasing id order
FirstMinBy(S, key(_)) ==
  CHOOSE v \in S :
    /\ \A u \in S : cmp_tuple(key(u), key(v)) # Less
    /\ \A u \in S : cmp_tuple(key(u), key(v)) = Equal => v <= u

\* the start vertex taken from the largest group of the smallest label
get_pattern_ranking_start_vertex_max_group(m, pattern) ==
  LET min_v_label == get_min_vertex_label(pattern)
      key(v) == <<0 - m.vertex_group_map[v]>>
  IN IF min_v_label = None THEN None
     ELSE FirstMinBy({v \in DOMAIN pattern.vertices : pattern.vertices[v].label = min_v_label},
                     key)

get_pattern_ranking_start_vertex(m, pattern) ==
  LET min_v_label == get_min_vertex_label(pattern)
      key(v) == <<m.vertex_group_map[v]>>
  IN IF min_v_label = None THEN None
     ELSE FirstMinBy({v \in DOMAIN pattern.vertices : pattern.vertices[v].label = min_v_label},
                     key)

init_adjacencies_stack(m, start_v_id) == Reverse(m.vertex_adjacencies_map[start_v_id])

\* one pop of the DFS loop of pattern_ranking_from_vertex on the state
\* st = [m, adjacency_stack, visited_edges, next_free_vertex_rank,
\* next_free_edge_rank]; the back of the VecDeque is the end of the sequence
ranking_step(st) ==
  LET adjacency == st.adjacency_stack[Len(st.adjacency_stack)]
      rest == SubSeq(st.adjacency_stack, 1, Len(st.adjacency_stack) - 1)
      adj_edge_id == adjacency.edge_id
      current_v_id == adjacency.adj_vertex.id
      visited == st.visited_edges \cup {adj_edge_id}
      is_vertex_visited == st.m.vertex_rank_map[current_v_id] # None
      \* vertex_rank_map.get(&current_v_id).unwrap()
      unwound == current_v_id \notin DOMAIN st.m.vertex_rank_map
      m1 == [st.m EXCEPT !.edge_rank_map = Insert(@, adj_edge_id, st.next_free_edge_rank),
                         !.vertex_rank_map =
                            IF is_vertex_visited THEN @
                            ELSE Insert(@, current_v_id, st.next_free_vertex_rank)]
  IN IF adj_edge_id \in st.visited_edges
     THEN [st EXCEPT !.adjacency_stack = rest]
     ELSE IF unwound THEN [st EXCEPT !.m.panicked = TRUE]
     ELSE Only({[m |-> m2,
                 adjacency_stack |->
                    rest \o SelectSeq(Reverse(m2.vertex_adjacencies_map[current_v_id]),
                                      LAMBDA adj : adj.edge_id \notin visited),
                 visited_edges |-> visited,
                 next_free_vertex_rank |->
                    IF is_vertex_visited THEN st.next_free_vertex_rank
                    ELSE st.next_free_vertex_rank + 1,
                 next_free_edge_rank |-> st.next_free_edge_rank + 1]
                : m2 \in {update_vertex_adjacencies_order(m1)}})

RECURSIVE ranking_dfs(_)
ranking_dfs(st) ==
  IF st.adjacency_stack = <<>> \/ st.m.panicked THEN st.m
  ELSE Only({ranking_dfs(next) : next \in {ranking_step(st)}})

\* both rank counters start again from 0 for every starting vertex
pattern_ranking_from_vertex(m, start_v_id) ==
  LET m0 == [m EXCEPT !.vertex_rank_map = Insert(@, start_v_id, 0)]
  IN Only({ranking_dfs(st) :
             st \in {[m |-> m0,
                      adjacency_stack |-> init_adjacencies_stack(m0, start_v_id),
                      visited_edges |-> {},
                      next_free_vertex_rank |-> 1,
                      next_free_edge_rank |-> 0]}})

RECURSIVE pattern_ranking_loop(_, _, _)
pattern_ranking_loop(m, pattern, start_v_id) ==
  Only({LET unranked == {v \in DOMAIN pattern.vertices : m1.vertex_rank_map[v] = None}
            key(v) == <<pattern.vertices[v].label, m1.vertex_group_map[v]>>
        IN IF unranked = {} \/ m1.panicked THEN m1
           ELSE pattern_ranking_loop(m1, pattern, FirstMinBy(unranked, key))
        : m1 \in {pattern_ranking_from_vertex(m, start_v_id)}})

pattern_ranking(m, pattern) ==
  LET start_v_id == get_pattern_ranking_start_vertex(m, pattern)
  IN IF start_v_id = None \/ m.panicked THEN m
     ELSE pattern_ranking_loop(m, pattern, start_v_id)

(* ------------------------- canonical labeling -------------------------- *)
\* what an operation leaves behind when an unwrap() / expect() panics
Panicked == [panic |-> TRUE]

update_vertex_groups(p, m) ==
  [p EXCEPT !.vertices_data =
     Map([v \in DOMAIN p.vertices_data |->
            IF v \in DOMAIN m.vertex_group_map
            THEN [p.vertices_data[v] EXCEPT !.group = m.vertex_group_map[v]]
            ELSE p.vertices_data[v]])]

\* rank -> id after set_*_rank ran over the manager's map in increasing id
\* order: of several ids with one rank the largest id is the one kept
RankMap(rank_map, data) ==
  LET ids == DOMAIN rank_map \cap DOMAIN data
  IN Map([r \in {rank_map[i] : i \in ids} |-> Max({i \in ids : rank_map[i] = r})])

update_pattern_ranks(p, m) ==
  IF \/ \E v \in DOMAIN m.vertex_rank_map : m.vertex_rank_map[v] = None
     \/ \E e \in DOMAIN m.edge_rank_map : m.edge_rank_map[e] = None
  THEN Panicked
  ELSE [p EXCEPT
          !.rank_vertex_map = RankMap(m.vertex_rank_map, p.vertices_data),
          !.vertices_data =
             Map([v \in DOMAIN p.vertices_data |->
                    IF v \in DOMAIN m.vertex_rank_map
                    THEN [p.vertices_data[v] EXCEPT !.rank = m.vertex_rank_map[v]]
                    ELSE p.vertices_data[v]]),
          !.rank_edge_map = RankMap(m.edge_rank_map, p.edges_data),
          !.edges_data =
             Map([e \in DOMAIN p.edges_data |->
                    IF e \in DOMAIN m.edge_rank_map
                    THEN [p.edges_data[e] EXCEPT !.rank = m.edge_rank_map[e]]
                    ELSE p.edges_data[e]])]

canonical_labeling(p) ==
  IF p = Panicked THEN Panicked ELSE
  Only({IF m.panicked THEN Panicked ELSE update_pattern_ranks(update_vertex_groups(p, m), m)
        : m \in {Only({pattern_ranking(grouped, p)
                       : grouped \in {Only({vertex_grouping(m0, p)
                                            : m0 \in {CanonicalLabelManager_from(p)}})}})}})

\* the number of vertices of rank 0
get_connected_component_num(p) ==
  Cardinality({v \in DOMAIN p.vertices : p.vertices_data[v].rank = 0})

is_connected(p) == get_connected_component_num(p) = 1

(* ----------------------------- construction ---------------------------- *)
\* impl From<PatternVertex> for Pattern
Pattern_from(vertex) ==
  [Pattern_default EXCEPT
     !.vertices = Insert(EmptyMap, vertex.id, vertex),
     !.vertices_data = Insert(EmptyMap, vertex.id, PatternVertexData_default),
     !.rank_vertex_map = Insert(EmptyMap, 0, vertex.id)]

\* vertices.entry(id).or_insert(vertex)
OrInsert(m, k, v) == IF k \in DOMAIN m THEN m ELSE Insert(m, k, v)

push_out(p, v, adj) ==
  [p EXCEPT !.vertices_data[v].out_adjacencies = Append(@, adj)]

push_in(p, v, adj) ==
  [p EXCEPT !.vertices_data[v].in_adjacencies = Append(@, adj)]

\* one iteration of the loop of try_from
try_from_edge(new_pattern, edge) ==
  LET p1 == [new_pattern EXCEPT
               !.edges = Insert(@, edge.id, edge),
               !.edges_data = Insert(@, edge.id, PatternEdgeData_default)]
      p2 == [p1 EXCEPT
               !.vertices = OrInsert(@, edge.start_vertex.id, edge.start_vertex),
               !.vertices_data = OrInsert(@, edge.start_vertex.id, PatternVertexData_default)]
      start_vertex == p2.vertices[edge.start_vertex.id]
      p3 == push_out(p2, start_vertex.id, Adjacency_new(start_vertex, edge))
      p4 == [p3 EXCEPT
               !.vertices = OrInsert(@, edge.end_vertex.id, edge.end_vertex),
               !.vertices_data = OrInsert(@, edge.end_vertex.id, PatternVertexData_default)]
      end_vertex == p4.vertices[edge.end_vertex.id]
  IN IF new_pattern = Panicked THEN Panicked
     ELSE IF Adjacency_new(start_vertex, edge) = NoAdjacency
             \/ Adjacency_new(end_vertex, edge) = NoAdjacency
     THEN Panicked
     ELSE push_in(p4, end_vertex.id, Adjacency_new(end_vertex, edge))

ResSome(p) == [kind |-> "Some", pattern |-> p]
ResNone == [kind |-> "None", pattern |-> Pattern_default]
ResErr == [kind |-> "Err", pattern |-> Pattern_default]
ResPanic == [kind |-> "Panic", pattern |-> Pattern_default]

\* a call that returns a Vec<Pattern>, kept in comps
ResVec == [kind |-> "Vec", pattern |-> Pattern_default]

Wrap(p) == IF p = Panicked THEN ResPanic ELSE ResSome(p)

\* impl TryFrom<Vec<PatternEdge>> for Pattern
try_from(edges) ==
  IF edges # <<>>
  THEN Wrap(canonical_labeling(FoldLeft(try_from_edge, Pattern_default, edges)))
  ELSE ResErr

(* ------------------------------- editing -------------------------------- *)
get_vertex_tag(p, vertex_id) ==
  IF vertex_id \in DOMAIN p.vertices_data THEN p.vertices_data[vertex_id].tag ELSE None

get_edge_tag(p, edge_id) ==
  IF edge_id \in DOMAIN p.edges_data THEN p.edges_data[edge_id].tag ELSE None

remove_vertex_internal(p, vertex_id) ==
  LET tag == get_vertex_tag(p, vertex_id)
  IN [p EXCEPT !.vertices = Remove(@, vertex_id),
               !.tag_vertex_map = IF tag # None THEN Remove(@, tag) ELSE @,
               !.vertices_data = Remove(@, vertex_id)]

remove_edge_internal(p, edge_id) ==
  LET tag == get_edge_tag(p, edge_id)
  IN [p EXCEPT !.edges = Remove(@, edge_id),
               !.tag_edge_map = IF tag # None THEN Remove(@, tag) ELSE @,
               !.edges_data = Remove(@, edge_id)]

\* Vec::retain(|adj| adj.get_edge_id() != edge_id)
retain(adjacencies, edge_id) == SelectSeq(adjacencies, LAMBDA adj : adj.edge_id # edge_id)

\* the body of the loop of remove_vertex over the removed vertex's
\* adjacencies; unwrap() panics when the adjacent vertex is gone already
remove_adjacent_edge(p, adjacency) ==
  LET adjacent_vertex_id == adjacency.adj_vertex.id
      adjacent_edge_id == adjacency.edge_id
  IN IF p = Panicked THEN Panicked
     ELSE IF adjacent_vertex_id \notin DOMAIN p.vertices_data THEN Panicked
     ELSE [remove_edge_internal(p, adjacent_edge_id) EXCEPT
             !.vertices_data[adjacent_vertex_id] =
                IF adjacency.direction = Out
                THEN [@ EXCEPT !.in_adjacencies = retain(@, adjacent_edge_id)]
                ELSE [@ EXCEPT !.out_adjacencies = retain(@, adjacent_edge_id)]]

\* canonical labeling runs first, the connectivity test reads the new ranks
remove_vertex(p, vertex_id) ==
  IF vertex_id \in DOMAIN p.vertices
  THEN Only({IF q = Panicked THEN ResPanic
             ELSE IF is_connected(q) THEN ResSome(q) ELSE ResNone
             : q \in {canonical_labeling(
                        FoldLeft(remove_adjacent_edge, remove_vertex_internal(p, vertex_id),
                                 adjacencies_iter(p, vertex_id)))}})
  ELSE ResNone

\* the connectivity test reads the ranks of the pattern before the removal:
\* canonical labeling runs only after is_connected() has answered
remove_edge(p, edge_id) ==
  IF edge_id \in DOMAIN p.edges
  THEN LET start_vertex == p.edges[edge_id].start_vertex.id
           end_vertex == p.edges[edge_id].end_vertex.id
           drop(q, v) == IF get_vertex_degree(q, v) = 0 /\ get_vertices_num(q) > 1
                         THEN remove_vertex_internal(q, v) ELSE q
           p1 == remove_edge_internal(p, edge_id)
           p2 == IF start_vertex \notin DOMAIN p1.vertices_data THEN Panicked
                 ELSE drop([p1 EXCEPT !.vertices_data[start_vertex].out_adjacencies =
                                         retain(@, edge_id)], start_vertex)
           p3 == IF p2 = Panicked THEN Panicked
                 ELSE IF end_vertex \notin DOMAIN p2.vertices_data THEN Panicked
                 ELSE drop([p2 EXCEPT !.vertices_data[end_vertex].in_adjacencies =
                                         retain(@, edge_id)], end_vertex)
       IN Only({IF q = Panicked THEN ResPanic
                ELSE IF is_connected(q) THEN Wrap(canonical_labeling(q)) ELSE ResNone
                : q \in {p3}})
  ELSE ResNone

\* IrResult<()>: the pattern after the edit, or ResErr for InvalidCode
add_edge(p, edge) ==
  LET start_vertex == edge.start_vertex
      end_vertex == edge.end_vertex
      p1 == IF start_vertex.id \notin DOMAIN p.vertices
            THEN [p EXCEPT !.vertices = Insert(@, start_vertex.id, start_vertex),
                           !.vertices_data = Insert(@, start_vertex.id, PatternVertexData_default)]
            ELSE IF end_vertex.id \notin DOMAIN p.vertices
            THEN [p EXCEPT !.vertices = Insert(@, end_vertex.id, end_vertex),
                           !.vertices_data = Insert(@, end_vertex.id, PatternVertexData_default)]
            ELSE p
      p2 == IF start_vertex.id \in DOMAIN p1.vertices_data
            THEN push_out(p1, start_vertex.id, Adjacency_new(start_vertex, edge)) ELSE p1
      p3 == IF end_vertex.id \in DOMAIN p2.vertices_data
            THEN push_in(p2, end_vertex.id, Adjacency_new(end_vertex, edge)) ELSE p2
  IN IF p = ResErr THEN ResErr
     ELSE IF edge.id \in DOMAIN p.edges THEN ResErr
     ELSE IF start_vertex.id \notin DOMAIN p.vertices /\ end_vertex.id \notin DOMAIN p.vertices
     THEN ResErr
     ELSE [p3 EXCEPT !.edges = Insert(@, edge.id, edge),
                     !.edges_data = Insert(@, edge.id, PatternEdgeData_default)]

extend_by_edges(p, edges) ==
  Only({IF new_pattern = ResErr THEN ResErr ELSE Wrap(canonical_labeling(new_pattern))
        : new_pattern \in {FoldLeft(add_edge, p, edges)}})

\* extend_edge is a DefiniteExtendEdge [src_vertex, edge_id, edge_label, direction]
extend_definitely(p, extend_edge, target_vetex) ==
  LET pattern_edge ==
        IF extend_edge.direction = Out
        THEN PatternEdge(extend_edge.edge_id, extend_edge.edge_label,
                         extend_edge.src_vertex, target_vetex)
        ELSE PatternEdge(extend_edge.edge_id, extend_edge.edge_label,
                         target_vetex, extend_edge.src_vertex)
  IN Only({IF new_pattern = ResErr THEN ResNone ELSE Wrap(canonical_labeling(new_pattern))
           : new_pattern \in {add_edge(p, pattern_edge)}})

\* ExtendStep::new: the extend edges [src_vertex_rank, edge_label, direction]
\* sorted by (src_vertex_rank, edge_label, direction)
ExtendStep_new(target_vertex_label, extend_edges) ==
  LET key(e) == <<e.src_vertex_rank, e.edge_label, e.direction>>
      c(a, b) == cmp_tuple(key(a), key(b))
  IN [target_vertex_label |-> target_vertex_label,
      extend_edges |-> StableSort(extend_edges, c)]

get_vertex_from_rank(p, vertex_rank) ==
  IF vertex_rank \in DOMAIN p.rank_vertex_map
     /\ p.rank_vertex_map[vertex_rank] \in DOMAIN p.vertices
  THEN p.vertices[p.rank_vertex_map[vertex_rank]]
  ELSE PatternVertex(None, None)

\* the source vertex is looked up in the receiver, the fresh edge id is taken
\* from the pattern under construction
extend(p, extend_step) ==
  LET target_vertex == PatternVertex(get_max_vertex_id(p) + 1, extend_step.target_vertex_label)
      p0 == [p EXCEPT !.vertices = Insert(@, target_vertex.id, target_vertex),
                      !.vertices_data = Insert(@, target_vertex.id, PatternVertexData_default)]
      body(new_pattern, extend_edge) ==
        LET src_vertex == get_vertex_from_rank(p, extend_edge.src_vertex_rank)
            new_pattern_edge_id == get_max_edge_id(new_pattern) + 1
            start_vertex == IF extend_edge.direction = In THEN target_vertex ELSE src_vertex
            end_vertex == IF extend_edge.direction = In THEN src_vertex ELSE target_vertex
            new_pattern_edge == PatternEdge(new_pattern_edge_id, extend_edge.edge_label,
                                            start_vertex, end_vertex)
        IN IF new_pattern = ResNone THEN ResNone
           ELSE IF src_vertex = PatternVertex(None, None) THEN ResNone
           ELSE [push_in(push_out(new_pattern, start_vertex.id,
                                  Adjacency_new(start_vertex, new_pattern_edge)),
                         end_vertex.id, Adjacency_new(end_vertex, new_pattern_edge))
                 EXCEPT !.edges = Insert(@, new_pattern_edge_id, new_pattern_edge),
                        !.edges_data = Insert(@, new_pattern_edge_id, PatternEdgeData_default)]
  IN IF DOMAIN p.vertices = {} THEN ResPanic
     ELSE Only({IF new_pattern = ResNone THEN ResNone
                ELSE Wrap(canonical_labeling(new_pattern))
                : new_pattern \in {FoldLeft(body, p0, extend_step.extend_edges)}})

set_vertex_tag(p, vertex_id, vertex_tag) ==
  LET old_vertex_id == IF vertex_tag \in DOMAIN p.tag_vertex_map
                       THEN p.tag_vertex_map[vertex_tag] ELSE None
      p1 == IF old_vertex_id # None
            THEN [p EXCEPT !.vertices_data[old_vertex_id].tag = None] ELSE p
  IN IF old_vertex_id # None /\ old_vertex_id \notin DOMAIN p.vertices_data THEN Panicked
     ELSE IF vertex_id \in DOMAIN p1.vertices_data
     THEN [p1 EXCEPT !.tag_vertex_map = Insert(@, vertex_tag, vertex_id),
                     !.vertices_data[vertex_id].tag = vertex_tag]
     ELSE p1

\* set_edge_tag writing the rank of the edge in place of its tag
set_edge_tag_as_rank(p, edge_tag, edge_id) ==
  IF edge_id \in DOMAIN p.edges_data
  THEN [p EXCEPT !.rank_edge_map = Insert(@, edge_tag, edge_id),
                 !.edges_data[edge_id].rank = edge_tag]
  ELSE p

set_edge_tag(p, edge_tag, edge_id) ==
  LET old_edge_id == IF edge_tag \in DOMAIN p.tag_edge_map
                     THEN p.tag_edge_map[edge_tag] ELSE None
      p1 == IF old_edge_id # None
            THEN [p EXCEPT !.edges_data[old_edge_id].tag = None] ELSE p
  IN IF old_edge_id # None /\ old_edge_id \notin DOMAIN p.edges_data THEN Panicked
     ELSE IF edge_id \in DOMAIN p1.edges_data
     THEN [p1 EXCEPT !.tag_edge_map = Insert(@, edge_tag, edge_id),
                     !.edges_data[edge_id].tag = edge_tag]
     ELSE p1

set_edge_predicate(p, edge_id, predicate) ==
  IF edge_id \in DOMAIN p.edges_data
  THEN [p EXCEPT !.edges_data[edge_id].predicate = predicate] ELSE p

set_vertex_predicate(p, vertex_id, predicate) ==
  IF vertex_id \in DOMAIN p.vertices_data
  THEN [p EXCEPT !.vertices_data[vertex_id].predicate = predicate] ELSE p

(* ------------------------- connected components ------------------------ *)
\* one pop of the BFS queue of get_connected_components on
\* st = [vertices_queue, pattern_edges, visited_vertices, panicked]: the
\* filter reads visited_vertices as it was before the pop, and the vertex
\* marked afterwards is the popped one, once per traversed adjacency
bfs_step(p, st) ==
  LET current_v_id == Head(st.vertices_queue)
      current_vertex == p.vertices[current_v_id]
      traversed == SelectSeq(adjacencies_iter(p, current_v_id),
                             LAMBDA adj : adj.adj_vertex.id \notin st.visited_vertices)
      edge_of(adj) ==
        IF adj.direction = Out
        THEN PatternEdge(adj.edge_id, adj.edge_label,
                         PatternVertex(current_v_id, current_vertex.label),
                         PatternVertex(adj.adj_vertex.id, adj.adj_vertex.label))
        ELSE PatternEdge(adj.edge_id, adj.edge_label,
                         PatternVertex(adj.adj_vertex.id, adj.adj_vertex.label),
                         PatternVertex(current_v_id, current_vertex.label))
  IN IF current_v_id \notin DOMAIN p.vertices THEN [st EXCEPT !.panicked = TRUE]
     ELSE [st EXCEPT
             !.vertices_queue =
                Tail(@) \o Vec([i \in 1..Len(traversed) |-> traversed[i].adj_vertex.id]),
             !.pattern_edges = @ \o Vec([i \in 1..Len(traversed) |-> edge_of(traversed[i])]),
             !.visited_vertices = IF traversed = <<>> THEN @ ELSE @ \cup {current_v_id}]

RECURSIVE bfs(_, _)
bfs(p, st) ==
  IF st.vertices_queue = <<>> \/ st.panicked THEN st
  ELSE Only({bfs(p, next) : next \in {bfs_step(p, st)}})

\* [components, visited_vertices, panicked]: visited_vertices is shared by
\* the traversals of all the rank-0 vertices
get_connected_components(p) ==
  LET roots == SelectSeq(SortedSeq(DOMAIN p.vertices),
                         LAMBDA v_id : p.vertices_data[v_id].rank = 0)
      component(acc, v_id) ==
        Only({LET built == IF st.pattern_edges = <<>>
                           THEN ResSome(Pattern_from(PatternVertex(v_id, p.vertices[v_id].label)))
                           ELSE try_from(st.pattern_edges)
              IN IF acc.panicked \/ st.panicked THEN [acc EXCEPT !.panicked = TRUE]
                 ELSE IF built.kind # "Some" THEN [acc EXCEPT !.panicked = TRUE]
                 ELSE [components |-> Append(acc.components, built.pattern),
                       visited_vertices |-> st.visited_vertices,
                       panicked |-> FALSE]
              : st \in {bfs(p, [vertices_queue |-> <<v_id>>, pattern_edges |-> <<>>,
                                visited_vertices |-> acc.visited_vertices,
                                panicked |-> acc.panicked])}})
  IN FoldLeft(component, [components |-> <<>>, visited_vertices |-> {}, panicked |-> FALSE],
              roots)

(* ----------------------------- state machine --------------------------- *)
VARIABLES
  pat,     \* the pattern the program holds
  prev,    \* the receiver of the last operation
  op,      \* the last operation
  arg,     \* its argument
  ret,     \* what it returned, [kind, pattern]
  comps,   \* the Vec<Pattern> of the last get_connected_components
  budget,  \* operations the run may still apply
  catalog  \* the Catalogue the planner owns

\* a planner that was given no catalogue
NoCatalogue == [nodes |-> EmptyMap, approaches |-> EmptyMap, plan_space |-> "Hybrid"]

vars == <<pat, prev, op, arg, ret, comps, budget, catalog>>

\* edges with an id of ids over vertices that carry the labels lab[id]
EdgesOver(ids, lab) ==
  {PatternEdge(id, l, PatternVertex(s, lab[s]), PatternVertex(t, lab[t]))
     : id \in ids, l \in ELabels, s \in DOMAIN lab, t \in DOMAIN lab}

\* edge lists of 1..n edges in which a vertex id carries one label
EdgeLists(n) ==
  UNION {{Vec(es) : es \in [1..k -> EdgesOver(0..MaxInputEId, lab)]}
         : k \in 1..n, lab \in [VIds -> VLabels]}

\* the labelings an argument may use on p: a vertex of p carries the label
\* p holds for it, a new vertex id any label
LabelsFor(p) ==
  {lab \in [VIds -> VLabels] : \A i \in DOMAIN p.vertices : lab[i] = p.vertices[i].label}

\* the program holds the pattern a constructor returned and may apply steps
\* operations to it
Constructed(steps) ==
  /\ prev = Pattern_default
  /\ comps = <<>>
  /\ catalog = NoCatalogue
  /\ budget = steps
  /\ pat = ret.pattern

FromDefault ==
  /\ op = "default" /\ arg = <<>>
  /\ ret = ResSome(Pattern_default)

FromVertex ==
  \E id \in VIds, l \in VLabels :
    /\ op = "from_vertex" /\ arg = PatternVertex(id, l)
    /\ ret = ResSome(Pattern_from(arg))

FromEdges(n) ==
  \E edges \in EdgeLists(n) :
    /\ op = "from_edges" /\ arg = edges
    /\ ret = try_from(edges)

\* the state after Pattern::from(vertex) or Pattern::try_from(edges)
Init == (FromVertex \/ FromEdges(MaxInput)) /\ Constructed(MaxSteps)

\* a run goes on with the pattern the last call returned
Ready == budget > 0 /\ ret.kind = "Some"

\* the caller keeps the pattern an operation returns, and its own pattern
\* when the operation returns None or Err or panics
Return(name, a, r) ==
  /\ budget' = budget - 1
  /\ prev' = pat
  /\ op' = name
  /\ arg' = a
  /\ ret' = r
  /\ pat' = IF r.kind = "Some" THEN r.pattern ELSE pat
  /\ comps' = <<>>
  /\ catalog' = catalog

RemoveVertex ==
  \E vertex_id \in VIds : Ready /\ \E r \in {remove_vertex(pat, vertex_id)} :
     Return("remove_vertex", vertex_id, r)

RemoveEdge ==
  \E edge_id \in EIds : Ready /\ \E r \in {remove_edge(pat, edge_id)} :
     Return("remove_edge", edge_id, r)

\* ids are capped: the new vertex and the new edges stay within VIds, EIds;
\* ExtendStep::new sorts, so the extend edges are drawn in one order only
Extend ==
  \E l \in VLabels, n \in 1..MaxExtend :
    \E es \in [1..n -> [src_vertex_rank : VIds, edge_label : ELabels, direction : {Out, In}]] :
      /\ Ready
      /\ ExtendStep_new(l, Vec(es)).extend_edges = Vec(es)
      /\ DOMAIN pat.vertices # {} => get_max_vertex_id(pat) + 1 \in VIds
      /\ get_max_edge_id(pat) + n \in EIds
      /\ \E r \in {extend(pat, ExtendStep_new(l, Vec(es)))} :
            Return("extend", ExtendStep_new(l, Vec(es)), r)

ExtendByEdges ==
  \E lab \in LabelsFor(pat), n \in 1..MaxAdded :
    \E es \in [1..n -> EdgesOver(EIds, lab)] :
      /\ Ready
      /\ \E r \in {extend_by_edges(pat, Vec(es))} :
            Return("extend_by_edges", Vec(es), r)

ExtendDefinitely ==
  \E lab \in LabelsFor(pat) :
    \E e \in EdgesOver(EIds, lab), d \in {Out, In} :
      Ready /\
      \E r \in {extend_definitely(pat,
                  [src_vertex |-> e.start_vertex, edge_id |-> e.id,
                   edge_label |-> e.label, direction |-> d], e.end_vertex)} :
         Return("extend_definitely",
                [src_vertex |-> e.start_vertex, edge_id |-> e.id, edge_label |-> e.label,
                 direction |-> d, target_vetex |-> e.end_vertex], r)

GetConnectedComponents ==
  Ready /\
  \E r \in {get_connected_components(pat)} :
    /\ budget' = budget - 1
    /\ prev' = pat
    /\ op' = "get_connected_components"
    /\ arg' = <<>>
    /\ ret' = IF r.panicked THEN ResPanic ELSE ResVec
    /\ comps' = IF r.panicked THEN <<>> ELSE r.components
    /\ pat' = pat
    /\ catalog' = catalog

Next ==
  \/ RemoveVertex
  \/ RemoveEdge
  \/ Extend
  \/ GetConnectedComponents

Spec == Init /\ [][Next]_vars

\* edits by concrete edges of a pattern just constructed, the empty
\* Pattern::default() included
InitEdit == (FromDefault \/ FromVertex \/ FromEdges(MaxAdded)) /\ Constructed(MaxEdits)

NextEdit ==
  \/ ExtendByEdges
  \/ ExtendDefinitely

SpecEdit == InitEdit /\ [][NextEdit]_vars

SetVertexTag ==
  \E vertex_id \in VIds, vertex_tag \in Tags :
    Ready /\ \E q \in {set_vertex_tag(pat, vertex_id, vertex_tag)} :
      Return("set_vertex_tag", <<vertex_id, vertex_tag>>, Wrap(q))

SetEdgeTag ==
  \E edge_tag \in Tags, edge_id \in EIds :
    Ready /\ \E q \in {set_edge_tag(pat, edge_tag, edge_id)} :
      Return("set_edge_tag", <<edge_tag, edge_id>>, Wrap(q))

SetVertexPredicate ==
  \E vertex_id \in VIds, predicate \in Predicates :
    Ready /\ \E q \in {set_vertex_predicate(pat, vertex_id, predicate)} :
      Return("set_vertex_predicate", <<vertex_id, predicate>>, Wrap(q))

SetEdgePredicate ==
  \E edge_id \in EIds, predicate \in Predicates :
    Ready /\ \E q \in {set_edge_predicate(pat, edge_id, predicate)} :
      Return("set_edge_predicate", <<edge_id, predicate>>, Wrap(q))

\* tagging, predicates and removals on a pattern just constructed
InitTag == (FromVertex \/ FromEdges(MaxAdded)) /\ Constructed(MaxTagSteps)

NextTag ==
  \/ SetVertexTag
  \/ SetEdgeTag
  \/ SetVertexPredicate
  \/ SetEdgePredicate
  \/ RemoveVertex
  \/ RemoveEdge

SpecTag == InitTag /\ [][NextTag]_vars

\* the patterns whose encodings are compared: vertex v carries the label
\* v \div 2, the edges join vertices of different labels, no two edges join
\* the same vertices in the same direction, and edge i of the list has id i
IsoVIds == 0..MaxIsoVId

IsoVertex(v) == PatternVertex(v, v \div 2)

IsoPairs == {c \in 0..((MaxIsoVId + 1) * (MaxIsoVId + 1) - 1) :
               (c \div (MaxIsoVId + 1)) \div 2 # (c % (MaxIsoVId + 1)) \div 2}

IsoList(S) ==
  Vec([i \in 1..Cardinality(S) |->
         PatternEdge(i - 1, 0, IsoVertex(SortedSeq(S)[i] \div (MaxIsoVId + 1)),
                     IsoVertex(SortedSeq(S)[i] % (MaxIsoVId + 1)))])

IsoLists == {IsoList(S) : S \in {T \in SUBSET IsoPairs : Cardinality(T) \in 1..MaxIsoEdges}}

\* edges under the renaming pi of the vertex ids, with the edge ids and the
\* order of the list reversed
Renamed(edges, pi) ==
  LET n == Len(edges)
      image(e) == PatternEdge(n - 1 - e.id, e.label,
                              PatternVertex(pi[e.start_vertex.id], e.start_vertex.label),
                              PatternVertex(pi[e.end_vertex.id], e.end_vertex.label))
  IN Vec([i \in 1..n |-> image(edges[n + 1 - i])])

\* a connected pattern built by Pattern::try_from
InitIso ==
  /\ \E edges \in IsoLists :
       /\ op = "from_edges" /\ arg = edges
       /\ ret = try_from(edges)
  /\ ret.kind = "Some"
  /\ is_connected(ret.pattern)
  /\ Constructed(MaxRenames)

\* the program builds the same pattern again from a renamed, reordered list
Rename ==
  \E pi \in Permutations(IsoVIds) :
    Ready /\ \E r \in {try_from(Renamed(arg, pi))} :
      Return("rename", Renamed(arg, pi), r)

NextIso == Rename

SpecIso == InitIso /\ [][NextIso]_vars

(* ------------------------------ the claims ------------------------------ *)
\* the edges of p's edge map that touch vertex v
Incident(p, v) ==
  {e \in DOMAIN p.edges : p.edges[e].start_vertex.id = v \/ p.edges[e].end_vertex.id = v}

\* the vertices of V joined to a vertex of S by edges of E, directions ignored
RECURSIVE Reach(_, _, _, _)
Reach(p, V, E, S) ==
  LET T == S \cup {w \in V : \E e \in E :
                     \/ p.edges[e].start_vertex.id \in S /\ p.edges[e].end_vertex.id = w
                     \/ p.edges[e].end_vertex.id \in S /\ p.edges[e].start_vertex.id = w}
  IN IF T = S THEN S ELSE Reach(p, V, E, T)

\* the graph of the vertices V and the edges E of p is connected
GraphConnected(p, V, E) == \E v \in V : Reach(p, V, E, {v}) = V

Connected(p) == GraphConnected(p, DOMAIN p.vertices, DOMAIN p.edges)

\* m restricted to the keys K
Restrict(m, K) == Map([k \in K |-> m[k]])

\* C3: for a pattern with at least one edge and a vertex v of it,
\* remove_vertex(v) returns None exactly when the pattern without v and its
\* incident edges is disconnected, and otherwise Some(q) with q connected,
\* one vertex fewer, and exactly the edges not incident to v
C3_RemoveVertex ==
  (op = "remove_vertex" /\ DOMAIN prev.edges # {} /\ arg \in DOMAIN prev.vertices) =>
    LET V == DOMAIN prev.vertices \ {arg}
        E == DOMAIN prev.edges \ Incident(prev, arg)
    IN /\ ret.kind = "None" <=> ~GraphConnected(prev, V, E)
       /\ ret.kind # "None" =>
            /\ ret.kind = "Some"
            /\ Connected(ret.pattern)
            /\ get_vertices_num(ret.pattern) = get_vertices_num(prev) - 1
            /\ ret.pattern.edges = Restrict(prev.edges, E)

\* the vertex set the claim C4 leaves after removing edge e of p: an
\* endpoint whose degree fell to 0 goes while another vertex remains
AfterRemoveEdge(p, e) ==
  LET E == DOMAIN p.edges \ {e}
      s == p.edges[e].start_vertex.id
      t == p.edges[e].end_vertex.id
      bare(v) == \A x \in E : p.edges[x].start_vertex.id # v /\ p.edges[x].end_vertex.id # v
      V1 == IF bare(s) /\ Cardinality(DOMAIN p.vertices) > 1
            THEN DOMAIN p.vertices \ {s} ELSE DOMAIN p.vertices
  IN IF bare(t) /\ Cardinality(V1) > 1 THEN V1 \ {t} ELSE V1

\* C4: for a connected pattern and an edge e of it, remove_edge(e) returns
\* None exactly when the pattern without e (and without the endpoints left
\* bare) is disconnected, and otherwise Some of that pattern, which is
\* connected
C4_RemoveEdge ==
  (op = "remove_edge" /\ arg \in DOMAIN prev.edges /\ Connected(prev)) =>
    LET V == AfterRemoveEdge(prev, arg)
        E == DOMAIN prev.edges \ {arg}
    IN /\ ret.kind = "None" <=> ~GraphConnected(prev, V, E)
       /\ ret.kind # "None" =>
            /\ ret.kind = "Some"
            /\ Connected(ret.pattern)
            /\ DOMAIN ret.pattern.vertices = V
            /\ ret.pattern.edges = Restrict(prev.edges, E)

\* ranks and ids of p correspond one to one: V vertices hold the ranks
\* 0..V-1, E edges the ranks 0..E-1, and the rank maps invert them
RankBijection(p) ==
  LET V == get_vertices_num(p)
      E == get_edges_num(p)
  IN /\ DOMAIN p.rank_vertex_map = 0..(V - 1)
     /\ DOMAIN p.rank_edge_map = 0..(E - 1)
     /\ \A v \in DOMAIN p.vertices :
          /\ v \in DOMAIN p.vertices_data
          /\ p.vertices_data[v].rank \in DOMAIN p.rank_vertex_map
          /\ p.rank_vertex_map[p.vertices_data[v].rank] = v
     /\ \A e \in DOMAIN p.edges :
          /\ e \in DOMAIN p.edges_data
          /\ p.edges_data[e].rank \in DOMAIN p.rank_edge_map
          /\ p.rank_edge_map[p.edges_data[e].rank] = e

Canonicalized == op \in {"from_edges", "extend", "extend_by_edges", "remove_vertex", "remove_edge"}

\* C2: every pattern returned by from_edges, extend, extend_by_edges,
\* remove_vertex or remove_edge, connected or not, has vertex ranks in
\* bijection with [0, V) and edge ranks in bijection with [0, E)
C2_RankBijection ==
  (Canonicalized /\ ret.kind = "Some") => RankBijection(ret.pattern)

\* every edge of p has its endpoints in p, one Out adjacency at its start,
\* one In adjacency at its end, and no other adjacency names it
AdjacencyConsistent(p) ==
  LET refs(v, list, e) == {i \in 1..Len(list) : list[i].edge_id = e}
  IN /\ \A e \in DOMAIN p.edges :
          /\ p.edges[e].start_vertex.id \in DOMAIN p.vertices
          /\ p.edges[e].end_vertex.id \in DOMAIN p.vertices
     /\ \A v \in DOMAIN p.vertices_data :
          LET outs == p.vertices_data[v].out_adjacencies
              ins == p.vertices_data[v].in_adjacencies
          IN /\ \A i \in 1..Len(outs) :
                  /\ outs[i].edge_id \in DOMAIN p.edges
                  /\ p.edges[outs[i].edge_id].start_vertex.id = v
                  /\ outs[i].direction = Out
                  /\ Cardinality(refs(v, outs, outs[i].edge_id)) = 1
             /\ \A i \in 1..Len(ins) :
                  /\ ins[i].edge_id \in DOMAIN p.edges
                  /\ p.edges[ins[i].edge_id].end_vertex.id = v
                  /\ ins[i].direction = In
                  /\ Cardinality(refs(v, ins, ins[i].edge_id)) = 1
     /\ \A e \in DOMAIN p.edges :
          LET s == p.edges[e].start_vertex.id
              t == p.edges[e].end_vertex.id
          IN /\ s \in DOMAIN p.vertices_data
             /\ t \in DOMAIN p.vertices_data
             /\ refs(s, p.vertices_data[s].out_adjacencies, e) # {}
             /\ refs(t, p.vertices_data[t].in_adjacencies, e) # {}

\* C9: every pattern a constructor or an edit returns has adjacency lists
\* consistent with its edges, repeated edge ids and self-loops included
C9_AdjacencyConsistent ==
  ret.kind = "Some" => AdjacencyConsistent(ret.pattern)

\* the connected components of p as sets of vertex ids
Components(p) ==
  {Reach(p, DOMAIN p.vertices, DOMAIN p.edges, {v}) : v \in DOMAIN p.vertices}

\* C5: get_connected_components returns one connected pattern per connected
\* component, and every vertex and every edge of the pattern lies in exactly
\* one of them, once, with the degrees it has in the pattern
C5_ConnectedComponents ==
  op = "get_connected_components" =>
    /\ ret.kind = "Vec"
    /\ Len(comps) = Cardinality(Components(prev))
    /\ \A i \in 1..Len(comps) : Connected(comps[i])
    /\ \A v \in DOMAIN prev.vertices :
         \E i \in 1..Len(comps) :
           /\ v \in DOMAIN comps[i].vertices
           /\ comps[i].vertices[v] = prev.vertices[v]
           /\ get_vertex_out_degree(comps[i], v) = get_vertex_out_degree(prev, v)
           /\ get_vertex_in_degree(comps[i], v) = get_vertex_in_degree(prev, v)
           /\ \A j \in 1..Len(comps) : v \in DOMAIN comps[j].vertices => j = i
    /\ \A e \in DOMAIN prev.edges :
         \E i \in 1..Len(comps) :
           /\ e \in DOMAIN comps[i].edges
           /\ comps[i].edges[e] = prev.edges[e]
           /\ \A j \in 1..Len(comps) : e \in DOMAIN comps[j].edges => j = i

\* every source rank of the ExtendStep step is a rank of p
SourceRanksExist(p, step) ==
  \A i \in 1..Len(step.extend_edges) :
    step.extend_edges[i].src_vertex_rank \in DOMAIN p.rank_vertex_map

\* q has the vertices, labels, edges and directions of p
SameGraph(q, p) == q.vertices = p.vertices /\ q.edges = p.edges

\* what remove_vertex(new vertex id) returns on the pattern extend returned
Undone == remove_vertex(ret.pattern, get_max_vertex_id(ret.pattern))

\* C6: for every pattern p and every ExtendStep whose source ranks exist in
\* p, extend returns a pattern from which remove_vertex(new vertex id)
\* returns Some pattern with the vertices, labels, edges and directions of p
C6_ExtendRemove ==
  (op = "extend" /\ SourceRanksExist(prev, arg)) =>
    /\ ret.kind = "Some"
    /\ Undone.kind = "Some"
    /\ SameGraph(Undone.pattern, prev)

\* the edges extend added are, one per ExtendEdge, incident to the vertex
\* new: Out runs from the source to new, In from new to the source
ExtendedBy(p, q, step, new) ==
  LET added == DOMAIN q.edges \ DOMAIN p.edges
      n == Len(step.extend_edges)
      fits(e, x) ==
        LET src == p.rank_vertex_map[x.src_vertex_rank]
        IN /\ e.label = x.edge_label
           /\ x.direction = Out => e.start_vertex.id = src /\ e.end_vertex.id = new
           /\ x.direction = In => e.start_vertex.id = new /\ e.end_vertex.id = src
  IN /\ Cardinality(added) = n
     /\ \A e \in DOMAIN p.edges : q.edges[e] = p.edges[e]
     /\ \E f \in [1..n -> added] :
          /\ \A i, j \in 1..n : f[i] = f[j] => i = j
          /\ \A i \in 1..n : fits(q.edges[f[i]], step.extend_edges[i])

\* the result of extend has the vertices of p and the vertex new with the
\* target label of the step
ExtendedAt(p, q, step, new) ==
  /\ get_vertices_num(q) = get_vertices_num(p) + 1
  /\ DOMAIN q.vertices = DOMAIN p.vertices \cup {new}
  /\ new \notin DOMAIN p.vertices
  /\ q.vertices[new] = PatternVertex(new, step.target_vertex_label)
  /\ ExtendedBy(p, q, step, new)

AddedEdge ==
  IF op = "extend_by_edges" THEN arg[1]
  ELSE IF arg.direction = Out
       THEN PatternEdge(arg.edge_id, arg.edge_label, arg.src_vertex, arg.target_vetex)
       ELSE PatternEdge(arg.edge_id, arg.edge_label, arg.target_vetex, arg.src_vertex)

AddedOne == (op = "extend_by_edges" /\ Len(arg) = 1) \/ op = "extend_definitely"

\* C8: adding an edge fails when its id exists or when both endpoints are
\* new and the pattern has a vertex; it proceeds when both are new and the
\* pattern is empty; one new endpoint is added with the label the edge
\* carries; a failure leaves the receiver as it was
C8_AddEdge ==
  AddedOne =>
    LET e == AddedEdge
        s_new == e.start_vertex.id \notin DOMAIN prev.vertices
        t_new == e.end_vertex.id \notin DOMAIN prev.vertices
        exists == e.id \in DOMAIN prev.edges
        failed == ret.kind = (IF op = "extend_by_edges" THEN "Err" ELSE "None")
        added == /\ ret.kind = "Some"
                 /\ e.id \in DOMAIN ret.pattern.edges
                 /\ ret.pattern.edges[e.id] = e
                 /\ e.start_vertex.id \in DOMAIN ret.pattern.vertices
                 /\ e.end_vertex.id \in DOMAIN ret.pattern.vertices
                 /\ s_new => ret.pattern.vertices[e.start_vertex.id] = e.start_vertex
                 /\ t_new => ret.pattern.vertices[e.end_vertex.id] = e.end_vertex
    IN /\ (exists \/ (s_new /\ t_new /\ get_vertices_num(prev) >= 1)) => failed
       /\ (~exists /\ s_new /\ t_new /\ get_vertices_num(prev) = 0) => added
       /\ (~exists /\ (s_new # t_new)) => added
       /\ failed => pat = prev

\* the tag maps of p are injective, name elements of p, and agree with the
\* tag fields
TagsConsistent(p) ==
  /\ \A t, u \in DOMAIN p.tag_vertex_map : p.tag_vertex_map[t] = p.tag_vertex_map[u] => t = u
  /\ \A t, u \in DOMAIN p.tag_edge_map : p.tag_edge_map[t] = p.tag_edge_map[u] => t = u
  /\ \A t \in DOMAIN p.tag_vertex_map : p.tag_vertex_map[t] \in DOMAIN p.vertices
  /\ \A t \in DOMAIN p.tag_edge_map : p.tag_edge_map[t] \in DOMAIN p.edges
  /\ \A v \in DOMAIN p.vertices_data, t \in Tags :
       p.vertices_data[v].tag = t <=> (t \in DOMAIN p.tag_vertex_map /\ p.tag_vertex_map[t] = v)
  /\ \A e \in DOMAIN p.edges_data, t \in Tags :
       p.edges_data[e].tag = t <=> (t \in DOMAIN p.tag_edge_map /\ p.tag_edge_map[t] = e)

\* C10: after any sequence of set_vertex_tag, set_edge_tag, remove_vertex
\* and remove_edge the tag maps of the pattern are injective and consistent
C10_TagsConsistent == TagsConsistent(pat)

\* the records (edge_label, start_label, start_rank, end_label, end_rank)
\* of the edges of p in edge-rank order
Records(p) ==
  LET ranks == SortedSeq(DOMAIN p.rank_edge_map)
      record(e) == <<e.label,
                     e.start_vertex.label, p.vertices_data[e.start_vertex.id].rank,
                     e.end_vertex.label, p.vertices_data[e.end_vertex.id].rank>>
  IN Vec([i \in 1..Len(ranks) |-> record(p.edges[p.rank_edge_map[ranks[i]]])])

\* C1: a pattern and the pattern built from the renamed, reordered edge
\* list have the same records in edge-rank order
C1_CanonicalEncoding ==
  op = "rename" => (ret.kind = "Some" /\ Records(ret.pattern) = Records(prev))

PatternMeta(vertex_labels, triples) ==
  [vertex_labels |-> vertex_labels, triples |-> triples]

vertex_label_ids_iter(pattern_meta) == SortedSeq(pattern_meta.vertex_labels)

\* the (edge label, direction) pairs the schema permits between a source and
\* a target vertex label: Out for source -> target, In for target -> source
associated_elabels_iter_by_vlabel(pattern_meta, src_v_label, dst_v_label) ==
  LET outs == {l \in ELabels : <<src_v_label, l, dst_v_label>> \in pattern_meta.triples}
      ins == {l \in ELabels : <<dst_v_label, l, src_v_label>> \in pattern_meta.triples}
      o == SortedSeq(outs)
      i == SortedSeq(ins)
  IN Vec([k \in 1..Len(o) |-> <<o[k], Out>>]) \o Vec([k \in 1..Len(i) |-> <<i[k], In>>])

ExtendEdge_new(src_vertex_rank, edge_label, direction) ==
  [src_vertex_rank |-> src_vertex_rank, edge_label |-> edge_label, direction |-> direction]

\* an element may join a set in which fewer than limit elements equal it
limit_repeated_element_num(add_element, subset_to_be_added, limit) ==
  Cardinality({k \in DOMAIN subset_to_be_added : subset_to_be_added[k] = add_element}) < limit

\* the non-empty subsets of origin_vec that the filter admits, breadth first:
\* a subset is a sequence of increasing indices into origin_vec
RECURSIVE get_subsets_bfs(_, _, _, _)
get_subsets_bfs(origin_vec, filter(_, _), queue, subsets) ==
  IF queue = <<>> THEN subsets
  ELSE LET subset == Head(queue)
           last == subset[Len(subset)]
           more == {k \in (last + 1)..Len(origin_vec) :
                       filter(origin_vec[k], Vec([j \in 1..Len(subset) |-> origin_vec[subset[j]]]))}
           next == SortedSeq(more)
       IN get_subsets_bfs(origin_vec, filter,
                          Tail(queue) \o Vec([k \in 1..Len(next) |-> Append(subset, next[k])]),
                          Append(subsets, Vec([j \in 1..Len(subset) |-> origin_vec[subset[j]]])))

get_subsets(origin_vec, filter(_, _)) ==
  get_subsets_bfs(origin_vec, filter, Vec([k \in 1..Len(origin_vec) |-> <<k>>]), <<>>)

\* the (extend edge, source vertex id) pairs of one target label: for every
\* vertex of the pattern in id order, every edge the schema puts between
\* the vertex's label and the target label
extend_edges_with_src_id(p, pattern_meta, target_v_label) ==
  LET body(acc, src_id) ==
        LET adjacent_edges == associated_elabels_iter_by_vlabel(
                                 pattern_meta, p.vertices[src_id].label, target_v_label)
        IN acc \o Vec([k \in 1..Len(adjacent_edges) |->
                         <<ExtendEdge_new(p.vertices_data[src_id].rank,
                                          adjacent_edges[k][1], adjacent_edges[k][2]),
                           src_id>>])
  IN FoldLeft(body, <<>>, SortedSeq(DOMAIN p.vertices))

\* the extend steps of one target label: one per subset of the candidate
\* extend edges that takes at most one edge from a source vertex
extend_steps_of_label(p, pattern_meta, target_v_label) ==
  LET filter(e, set) ==
        limit_repeated_element_num(e[2], Vec([k \in 1..Len(set) |-> set[k][2]]), 1)
      collection == get_subsets(extend_edges_with_src_id(p, pattern_meta, target_v_label), filter)
  IN Vec([k \in 1..Len(collection) |->
            ExtendStep_new(target_v_label,
                           Vec([j \in 1..Len(collection[k]) |-> collection[k][j][1]]))])

vertex_label_count(p, label) ==
  Cardinality({v \in DOMAIN p.vertices : p.vertices[v].label = label})

\* get_extend_steps with the label test  count > limit  in place of  count >= limit
get_extend_steps_gt(p, pattern_meta, same_label_vertex_limit) ==
  LET body(extend_steps, target_v_label) ==
        IF vertex_label_count(p, target_v_label) > same_label_vertex_limit
        THEN extend_steps
        ELSE extend_steps \o extend_steps_of_label(p, pattern_meta, target_v_label)
  IN FoldLeft(body, <<>>, vertex_label_ids_iter(pattern_meta))

get_extend_steps(p, pattern_meta, same_label_vertex_limit) ==
  LET body(extend_steps, target_v_label) ==
        IF vertex_label_count(p, target_v_label) >= same_label_vertex_limit
        THEN extend_steps
        ELSE extend_steps \o extend_steps_of_label(p, pattern_meta, target_v_label)
  IN FoldLeft(body, <<>>, vertex_label_ids_iter(pattern_meta))

ResSteps(extend_steps) == [kind |-> "Steps", steps |-> extend_steps]

\* the schemas over the model's labels
PatternMetas ==
  {PatternMeta(ls, ts) : ls \in SUBSET VLabels,
                         ts \in SUBSET (VLabels \X ELabels \X VLabels)}

\* get_extend_steps borrows the pattern: the caller's pattern stays as it is
GetExtendSteps ==
  \E pattern_meta \in PatternMetas, same_label_vertex_limit \in 0..MaxLimit :
    /\ budget > 0 /\ op # "get_extend_steps"
    /\ budget' = budget - 1
    /\ prev' = pat
    /\ op' = "get_extend_steps"
    /\ arg' = [pattern_meta |-> pattern_meta, same_label_vertex_limit |-> same_label_vertex_limit]
    /\ ret' = ResSteps(get_extend_steps(pat, pattern_meta, same_label_vertex_limit))
    /\ UNCHANGED <<pat, comps, catalog>>

InitSteps ==
  /\ FromDefault \/ FromVertex \/ FromEdges(MaxAdded)
  /\ ret.kind = "Some"
  /\ Constructed(MaxEnums)

NextSteps == GetExtendSteps

SpecSteps == InitSteps /\ [][NextSteps]_vars

\* C11: no extend step that get_extend_steps returns, applied to the pattern,
\* gives a pattern with more than same_label_limit vertices of the step's
\* target label; a target label that same_label_limit or more vertices of
\* the pattern carry yields no step
C11_SameLabelLimit ==
  op = "get_extend_steps" =>
    \A k \in DOMAIN ret.steps :
      LET step == ret.steps[k]
          r == extend(pat, step)
      IN /\ vertex_label_count(pat, step.target_vertex_label) < arg.same_label_vertex_limit
         /\ r.kind = "Some" =>
              vertex_label_count(r.pattern, step.target_vertex_label)
                 <= arg.same_label_vertex_limit

\* an enumeration that returns a step whose extension reaches the limit
\* exactly, while another label of the schema is at the limit and suppressed
C11_Witness ==
  /\ op = "get_extend_steps"
  /\ \E k \in DOMAIN ret.steps :
       LET r == extend(pat, ret.steps[k])
       IN /\ r.kind = "Some"
          /\ vertex_label_count(r.pattern, ret.steps[k].target_vertex_label)
               = arg.same_label_vertex_limit
          /\ Len(ret.steps[k].extend_edges) = 2
  /\ \E l \in arg.pattern_meta.vertex_labels :
       /\ vertex_label_count(pat, l) >= arg.same_label_vertex_limit
       /\ extend_steps_of_label(pat, arg.pattern_meta, l) # <<>>

(* ------------------------------ cost model ----------------------------- *)
\* the tunables, in hundredths: 0.15, 0.1 and 6.0
ALPHA == 15
BETA == 10
W1 == 600
\* f64::MAX, the value of OrderedFloat::max_value(), in hundredths
F64Max == 1000000000

CostCount_new(instance_count, adjacency_count, intersect_count, left_join_count, right_join_count) ==
  [instance_count |-> instance_count, adjacency_count |-> adjacency_count,
   intersect_count |-> intersect_count, left_join_count |-> left_join_count,
   right_join_count |-> right_join_count]

from_src_pattern(src_pattern_count) == CostCount_new(src_pattern_count, 0, 0, 0, 0)

\* from_extend charging the source count once more whatever the arity
from_extend_always(sub_pattern_count, pattern_count, adjacency_count, intersect_count, extend_num) ==
  CostCount_new(sub_pattern_count + pattern_count + sub_pattern_count * extend_num,
                IF extend_num <= 1 THEN 0 ELSE adjacency_count,
                intersect_count, 0, 0)

from_extend(sub_pattern_count, pattern_count, adjacency_count, intersect_count, extend_num) ==
  CostCount_new(sub_pattern_count + pattern_count
                  + (IF extend_num <= 1 THEN 0 ELSE sub_pattern_count * extend_num),
                IF extend_num <= 1 THEN 0 ELSE adjacency_count,
                intersect_count, 0, 0)

from_join(left_join_count, right_join_count, pattern_count) ==
  CostCount_new(pattern_count, 0, 0, left_join_count, right_join_count)

CostCount_max_value == CostCount_new(F64Max, F64Max, F64Max, F64Max, F64Max)

\* the sum of two f64: the greatest f64 absorbs the counts of a catalogue
f64_add(a, b) == IF a + b >= F64Max THEN F64Max ELSE a + b

\* the scalar cost, in hundredths
get_cost(c) ==
  IF c = CostCount_max_value THEN F64Max
  ELSE 100 * c.instance_count + ALPHA * c.adjacency_count + BETA * c.intersect_count
       + W1 * c.left_join_count + W1 * c.right_join_count

\* a += that leaves self as it is
add_assign_nothing(self, rhs) == self

\* impl AddAssign for CostCount: self after  self += rhs
add_assign(self, rhs) ==
  CostCount_new(f64_add(self.instance_count, rhs.instance_count),
                f64_add(self.adjacency_count, rhs.adjacency_count),
                f64_add(self.intersect_count, rhs.intersect_count),
                f64_add(self.left_join_count, rhs.left_join_count),
                f64_add(self.right_join_count, rhs.right_join_count))

\* impl Add for CostCount: the right join count of the sum takes the left
\* join count of rhs
add(self, rhs) ==
  CostCount_new(f64_add(self.instance_count, rhs.instance_count),
                f64_add(self.adjacency_count, rhs.adjacency_count),
                f64_add(self.intersect_count, rhs.intersect_count),
                f64_add(self.left_join_count, rhs.left_join_count),
                f64_add(self.right_join_count, rhs.left_join_count))

\* Ord for CostCount compares the scalar costs
cost_lt(a, b) == get_cost(a) < get_cost(b)

ResCost(c) == [kind |-> "Cost", cost |-> c]

CostCounts ==
  [instance_count : 0..MaxCost, adjacency_count : 0..MaxCost, intersect_count : 0..MaxCost,
   left_join_count : 0..MaxCost, right_join_count : 0..MaxCost]

\* the program holds two cost tuples
InitCost ==
  /\ pat = Pattern_default /\ prev = Pattern_default /\ comps = <<>>
  /\ catalog = NoCatalogue
  /\ budget = 1
  /\ op = "costs"
  /\ \E a \in CostCounts, b \in CostCounts : arg = <<a, b>>
  /\ ret = ResNone

\* a + b
Add ==
  /\ budget > 0
  /\ budget' = budget - 1
  /\ op' = "add"
  /\ ret' = ResCost(add(arg[1], arg[2]))
  /\ UNCHANGED <<pat, prev, arg, comps, catalog>>

\* a += b
AddAssign ==
  /\ budget > 0
  /\ budget' = budget - 1
  /\ op' = "add_assign"
  /\ ret' = ResCost(add_assign(arg[1], arg[2]))
  /\ UNCHANGED <<pat, prev, arg, comps, catalog>>

NextCost == Add \/ AddAssign

SpecCost == InitCost /\ [][NextCost]_vars

\* C13: each of the five components of a + b is the sum of the components
\* of a and b, and a + b is the value of a after a += b
C13_AddComponentwise ==
  op = "add" =>
    /\ ret.cost.instance_count = arg[1].instance_count + arg[2].instance_count
    /\ ret.cost.adjacency_count = arg[1].adjacency_count + arg[2].adjacency_count
    /\ ret.cost.intersect_count = arg[1].intersect_count + arg[2].intersect_count
    /\ ret.cost.left_join_count = arg[1].left_join_count + arg[2].left_join_count
    /\ ret.cost.right_join_count = arg[1].right_join_count + arg[2].right_join_count
    /\ ret.cost = add_assign(arg[1], arg[2])

(* ----------------------- best-approach search -------------------------- *)
\* a catalogue node: the size of its pattern, the pattern's count and the
\* memoized best approach (an approach index or None)
PatternWeight(vertices_num, count, best_approach) ==
  [vertices_num |-> vertices_num, count |-> count, best_approach |-> best_approach]

\* a catalogue arc with its weight
ExtendApproach(src, target, adjacency_count, intersect_count, extend_num) ==
  [src_pattern_index |-> src, target_pattern_index |-> target, kind |-> "ExtendStep",
   adjacency_count |-> adjacency_count, intersect_count |-> intersect_count,
   extend_num |-> extend_num, probe_pattern_node_index |-> None]

JoinApproach(build, target, probe) ==
  [src_pattern_index |-> build, target_pattern_index |-> target, kind |-> "BinaryJoinStep",
   adjacency_count |-> 0, intersect_count |-> 0,
   extend_num |-> 0, probe_pattern_node_index |-> probe]

\* the in-approaches of a node, in approach index order
pattern_in_approaches_iter(c, node_index) ==
  SortedSeq({a \in DOMAIN c.approaches : c.approaches[a].target_pattern_index = node_index})

collect_candidate_approaches(c, node_index) ==
  LET in_approaches == pattern_in_approaches_iter(c, node_index)
      is_approach_in_plan_space(a) ==
        CASE c.plan_space = "ExtendWithIntersection" -> c.approaches[a].kind = "ExtendStep"
          [] c.plan_space = "BinaryJoin" -> c.approaches[a].kind = "BinaryJoinStep"
          [] OTHER -> TRUE
  IN SelectSeq(in_approaches, is_approach_in_plan_space)

estimate_extend_step_cost(c, approach) ==
  LET w == c.approaches[approach]
  IN from_extend(c.nodes[w.src_pattern_index].count, c.nodes[w.target_pattern_index].count,
                 w.adjacency_count, w.intersect_count, w.extend_num)

set_pattern_best_approach(c, node_index, best_approach) ==
  [c EXCEPT !.nodes[node_index].best_approach = best_approach]

\* results of the search: Ok((approach, cost)), Err(Unsupported), a panic
DpOk(c, approach, cost) == [catalog |-> c, kind |-> "Ok", approach |-> approach, cost |-> cost]
DpErr(c) == [catalog |-> c, kind |-> "Err", approach |-> None, cost |-> CostCount_max_value]
DpPanic(c) == [catalog |-> c, kind |-> "Panic", approach |-> None, cost |-> CostCount_max_value]

\* Result::expect / unwrap
expect(r) == IF r.kind = "Err" THEN DpPanic(r.catalog) ELSE r

RECURSIVE set_node_best_approach_recursively(_, _)

\* the cost of the probe side is searched for, and added with +
estimate_binary_join_step_cost(c, approach) ==
  LET w == c.approaches[approach]
      build_pattern_cardinality == c.nodes[w.src_pattern_index].count
      probe_pattern_cardinality == c.nodes[w.probe_pattern_node_index].count
      joined_pattern_cardinality == c.nodes[w.target_pattern_index].count
  IN Only({IF probe.kind = "Panic" THEN probe
           ELSE DpOk(probe.catalog, approach,
                     add(probe.cost, from_join(build_pattern_cardinality,
                                               probe_pattern_cardinality,
                                               joined_pattern_cardinality)))
           : probe \in {expect(set_node_best_approach_recursively(
                                   c, w.probe_pattern_node_index))}})

estimate_approach_cost(c, approach) ==
  IF c.approaches[approach].kind = "ExtendStep"
  THEN DpOk(c, approach, estimate_extend_step_cost(c, approach))
  ELSE estimate_binary_join_step_cost(c, approach)

\* a size-1 node costs its count; a node with a memoized approach costs its
\* source's cost += the step cost; otherwise every candidate is costed with
\* the source's cost + the step cost, the first of least cost is memoized
set_node_best_approach_recursively(c0, node_index) ==
  LET pattern_weight == c0.nodes[node_index]
      body(acc, approach) ==
        IF acc.kind = "Panic" THEN acc
        ELSE Only({
          IF pre.kind = "Panic" THEN pre
          ELSE Only({
            IF step.kind = "Panic" THEN step
            ELSE IF cost_lt(add(pre.cost, step.cost), acc.cost)
                 THEN DpOk(step.catalog, approach, add(pre.cost, step.cost))
                 ELSE DpOk(step.catalog, acc.approach, acc.cost)
            : step \in {estimate_approach_cost(pre.catalog, approach)}})
          : pre \in {expect(set_node_best_approach_recursively(
                               acc.catalog, c0.approaches[approach].src_pattern_index))}})
  IN IF pattern_weight.vertices_num = 1
     THEN DpOk(c0, None, from_src_pattern(pattern_weight.count))
     ELSE IF pattern_weight.best_approach # None
     THEN Only({
            IF pre.kind = "Panic" THEN pre
            ELSE Only({
              IF step.kind = "Panic" THEN step
              ELSE DpOk(step.catalog, pattern_weight.best_approach,
                        add_assign(pre.cost, step.cost))
              : step \in {estimate_approach_cost(pre.catalog, pattern_weight.best_approach)}})
            : pre \in {expect(set_node_best_approach_recursively(
                                 c0, c0.approaches[pattern_weight.best_approach].src_pattern_index))}})
     ELSE Only({
            IF candidate_approaches = <<>> THEN DpErr(c0)
            ELSE Only({
              IF r.kind = "Panic" THEN r
              ELSE DpOk(set_pattern_best_approach(r.catalog, node_index, r.approach),
                        r.approach, r.cost)
              : r \in {FoldLeft(body, DpOk(c0, candidate_approaches[1], CostCount_max_value),
                                candidate_approaches)}})
            : candidate_approaches \in {collect_candidate_approaches(c0, node_index)}})

\* the node of the pattern is looked up and searched from; a failed search
\* panics
set_best_approach_by_pattern(c, node_index) ==
  expect(set_node_best_approach_recursively(c, node_index))

\* the estimates a catalogue may carry
CountValues == {1, 3}
AdjacencyValues == {100}

\* catalogues of MaxCatNode + 1 nodes: node 0 is a size-1 entry, sizes do not
\* decrease with the index, an extend arc leads to a pattern of one vertex
\* more, a join arc joins two patterns of two or more vertices into a
\* larger one, every pattern of two or more vertices has an in-approach; no
\* best approach is memoized
CatNodes == 0..MaxCatNode

CatSizes ==
  {sz \in [CatNodes -> 1..MaxCatSize] :
      /\ sz[0] = 1
      /\ \A i \in CatNodes \ {0} : sz[i - 1] <= sz[i] /\ sz[i] <= sz[i - 1] + 1}

ApproachesOver(sz) ==
  {ExtendApproach(e[1], e[2], adjacency_count, 0, extend_num) :
      e \in {x \in CatNodes \X CatNodes : sz[x[2]] = sz[x[1]] + 1},
      adjacency_count \in AdjacencyValues, extend_num \in 1..MaxExtend}
  \cup
  {JoinApproach(j[1], j[3], j[2]) :
      j \in {x \in CatNodes \X CatNodes \X CatNodes :
               /\ sz[x[1]] >= 2 /\ sz[x[2]] >= 2
               /\ sz[x[3]] > sz[x[1]] /\ sz[x[3]] > sz[x[2]]}}

ApproachCode(a) ==
  (((a.target_pattern_index * (MaxCatNode + 1) + a.src_pattern_index) * 2
    + (IF a.kind = "ExtendStep" THEN 0 ELSE 1)) * (MaxExtend + 1) + a.extend_num)
  * (MaxCatNode + 2) + (a.probe_pattern_node_index + 1)

ApproachList(S) ==
  LET codes == SortedSeq({ApproachCode(a) : a \in S})
  IN Map([i \in 0..(Len(codes) - 1) |-> CHOOSE a \in S : ApproachCode(a) = codes[i + 1]])

Catalogues(max_approaches, counts) ==
  UNION {UNION {{[nodes |-> Map([i \in CatNodes |-> PatternWeight(sz[i], count[i], None)]),
                  approaches |-> approaches,
                  plan_space |-> plan_space]
                 : count \in [CatNodes -> counts],
                   approaches \in {ApproachList(S)},
                   plan_space \in {"ExtendWithIntersection", "BinaryJoin", "Hybrid"}}
                : S \in {T \in {{f[i] : i \in DOMAIN f} :
                                    f \in UNION {[1..n -> ApproachesOver(sz)] :
                                                   n \in 0..max_approaches}} :
                           \A n \in CatNodes :
                              sz[n] > 1 => \E a \in T : a.target_pattern_index = n}}
         : sz \in CatSizes}

InitPlan ==
  /\ pat = Pattern_default /\ comps = <<>>
  /\ budget = MaxSearches
  /\ op = "catalogue" /\ arg = <<>> /\ ret = ResNone
  /\ catalog \in Catalogues(MaxApproaches, CountValues)
  /\ prev = catalog

\* the planner keeps the catalogue with what the search memoized
SetBestApproachByPattern ==
  \E node_index \in CatNodes :
    /\ budget > 0 /\ ret.kind # "Panic"
    /\ \E r \in {set_best_approach_by_pattern(catalog, node_index)} :
         /\ catalog' = r.catalog
         /\ ret' = [kind |-> r.kind, approach |-> r.approach, cost |-> r.cost]
    /\ budget' = budget - 1
    /\ prev' = catalog
    /\ op' = "set_best_approach_by_pattern"
    /\ arg' = node_index
    /\ UNCHANGED <<pat, comps>>

NextPlan == SetBestApproachByPattern

SpecPlan == InitPlan /\ [][NextPlan]_vars

\* the cost of producing a node's pattern by the memoized approaches, and of
\* a step, costs added componentwise
RECURSIVE TotalCost(_, _)
StepCost(c, a) ==
  LET w == c.approaches[a]
  IN IF w.kind = "ExtendStep" THEN estimate_extend_step_cost(c, a)
     ELSE add_assign(TotalCost(c, w.probe_pattern_node_index),
                     from_join(c.nodes[w.src_pattern_index].count,
                               c.nodes[w.probe_pattern_node_index].count,
                               c.nodes[w.target_pattern_index].count))

TotalCost(c, node_index) ==
  IF c.nodes[node_index].vertices_num = 1
  THEN from_src_pattern(c.nodes[node_index].count)
  ELSE add_assign(TotalCost(c, c.approaches[c.nodes[node_index].best_approach].src_pattern_index),
                  StepCost(c, c.nodes[node_index].best_approach))

\* the total cost of reaching its target by approach a
ApproachCost(c, a) ==
  get_cost(add_assign(TotalCost(c, c.approaches[a].src_pattern_index), StepCost(c, a)))

NoMemo(c) == \A n \in DOMAIN c.nodes : c.nodes[n].best_approach = None

Visited(c) == {n \in DOMAIN c.nodes : c.nodes[n].best_approach # None}

\* C12: after a search on a catalogue with no memoized choices, the approach
\* memoized on a node costs no more than any candidate in-approach of the
\* node in the plan space, and is the first of the candidates of that cost
C12_BestApproach ==
  (op = "set_best_approach_by_pattern" /\ ret.kind = "Ok" /\ NoMemo(prev)) =>
    \A n \in Visited(catalog) :
      LET best == catalog.nodes[n].best_approach
          candidates == collect_candidate_approaches(catalog, n)
      IN \A k \in DOMAIN candidates :
           /\ ApproachCost(catalog, best) <= ApproachCost(catalog, candidates[k])
           /\ ApproachCost(catalog, best) = ApproachCost(catalog, candidates[k])
                => best <= candidates[k]

(* --------------------------- plan emission ----------------------------- *)
\* a node of a logical plan: its operator, the indices of its children, and
\* for an Intersect its parents, for a Join its keys, for a Scan its tables
Node(opr, children) ==
  [opr |-> opr, children |-> Vec(children), parents |-> <<>>,
   left_keys |-> <<>>, right_keys |-> <<>>, tables |-> {}]

\* what plan generation reads of a definite extend step: the number of its
\* extend edges (0 for the source step), the number of vertex labels its
\* edges admit for the target vertex, whether the target vertex has a predicate
DefiniteExtendStep(extend_edges_num, target_vertex_label_num, vertex_filter) ==
  [extend_edges_num |-> extend_edges_num,
   target_vertex_label_num |-> target_vertex_label_num,
   vertex_filter |-> vertex_filter]

\* a pattern as plan generation sees it: the catalogue node of its code (None
\* when the catalogue has none), its size, whether its vertices carry
\* predicates, and for a pattern outside the catalogue the sub-patterns that
\* removing one vertex leaves, each with the number of edges of the vertex
PlanPattern(node_index, vertices_num, predicates, subs) ==
  [node_index |-> node_index, vertices_num |-> vertices_num,
   predicates |-> predicates, subs |-> subs]

PlanGenerator_new(pattern, c, pattern_meta, is_distributed) ==
  [nodes |-> <<>>, roots |-> <<>>, vertex_labels_to_scan |-> {},
   catalog |-> c, is_distributed |-> is_distributed, pattern_meta |-> pattern_meta,
   target_pattern |-> pattern, kind |-> "Ok"]

\* Result::expect on a generator
expect_plan(g) == IF g.kind = "Err" THEN [g EXCEPT !.kind = "Panic"] ELSE g

OffsetBy(s, d) == [i \in DOMAIN s |-> s[i] + d]

\* the nodes after the inserted one have their children, and an Intersect its
\* parents, offset by 1
insert_node(g, index, node) ==
  IF Len(g.nodes) < index THEN [g EXCEPT !.kind = "Err"]
  ELSE LET offset(nd) ==
             [nd EXCEPT !.children = OffsetBy(nd.children, 1),
                        !.parents = IF nd.opr = "Intersect"
                                    THEN OffsetBy(nd.parents, 1) ELSE nd.parents]
       IN [g EXCEPT !.nodes =
             Vec([i \in 1..(Len(g.nodes) + 1) |->
                    IF i < index + 1 THEN g.nodes[i]
                    ELSE IF i = index + 1 THEN node
                    ELSE offset(g.nodes[i - 1])])]

\* the nodes after the removed one have their children offset by -1
remove_node(g, index) ==
  IF Len(g.nodes) < index THEN [g EXCEPT !.kind = "Err"]
  ELSE IF index = Len(g.nodes) THEN [g EXCEPT !.kind = "Panic"]
  ELSE LET offset(nd) == [nd EXCEPT !.children = OffsetBy(nd.children, -1)]
       IN [g EXCEPT !.nodes =
             Vec([i \in 1..(Len(g.nodes) - 1) |->
                    IF i < index + 1 THEN g.nodes[i]
                    ELSE offset(g.nodes[i + 1])])]

\* a pattern of one vertex: a label Select and an As
generate_pattern_match_plan_for_size_one_pattern(g, vertex_label) ==
  [g EXCEPT !.nodes = g.nodes \o <<Node("Select", <<1>>), Node("As", <<2>>)>>,
            !.vertex_labels_to_scan = g.vertex_labels_to_scan \cup {vertex_label},
            !.roots = <<0>>]

SetLastChildren(nodes, children) ==
  [nodes EXCEPT ![Len(nodes)].children = Vec(children)]

\* the label Select and the predicate Select that follow the expansion
append_filters(nodes, child_offset, step) ==
  LET select == IF step.target_vertex_label_num > 1
                THEN <<Node("Select", <<child_offset>>)>> ELSE <<>>
      child_offset2 == child_offset + Len(select)
      filter == IF step.vertex_filter THEN <<Node("Select", <<child_offset2>>)>> ELSE <<>>
  IN nodes \o select \o filter

append_extend_operator_distributed(g, step) ==
  LET child_offset == Len(g.nodes)
      edge_expands_num == step.extend_edges_num
      edge_expands_ids == [i \in 1..edge_expands_num |-> i - 1 + child_offset]
  IN IF edge_expands_num > 1
     THEN IF g.nodes = <<>> THEN [g EXCEPT !.kind = "Panic"]
          ELSE [g EXCEPT !.nodes = append_filters(
                  SetLastChildren(g.nodes, edge_expands_ids)
                  \o [i \in 1..edge_expands_num |->
                        Node("EdgeExpand", <<child_offset + edge_expands_num>>)]
                  \o <<[Node("Intersect", <<child_offset + edge_expands_num + 1>>)
                          EXCEPT !.parents = Vec(edge_expands_ids)]>>,
                  child_offset + edge_expands_num + 2, step)]
     ELSE IF edge_expands_num = 1
     THEN IF g.nodes = <<>> THEN [g EXCEPT !.kind = "Panic"]
          ELSE [g EXCEPT !.nodes = append_filters(
                  SetLastChildren(g.nodes, edge_expands_ids)
                  \o <<Node("EdgeExpand", <<child_offset + 1>>)>>,
                  child_offset + 2, step)]
     ELSE [g EXCEPT !.kind = "Err"]

append_extend_operator_stand_alone(g, step) ==
  IF g.nodes = <<>> THEN [g EXCEPT !.kind = "Panic"]
  ELSE LET current_offset == Len(g.nodes)
           parent_node == g.nodes[Len(g.nodes)]
           nodes1 == IF \E i \in DOMAIN parent_node.children :
                           parent_node.children[i] = current_offset
                     THEN g.nodes
                     ELSE SetLastChildren(g.nodes,
                                          Append(parent_node.children, current_offset))
           child_offset == Len(g.nodes) + 1
           edge_expands_num == step.extend_edges_num
       IN IF edge_expands_num = 0 THEN [g EXCEPT !.nodes = nodes1, !.kind = "Err"]
          ELSE IF edge_expands_num = 1
          THEN [g EXCEPT !.nodes = append_filters(
                  nodes1 \o <<Node("EdgeExpand", <<child_offset>>)>>, child_offset + 1, step)]
          ELSE [g EXCEPT !.nodes = append_filters(
                  nodes1 \o <<Node("ExpandAndIntersect", <<child_offset>>)>>,
                  child_offset + 1, step)]

append_extend_operator(g, step) ==
  IF g.is_distributed
  THEN expect_plan(append_extend_operator_distributed(g, step))
  ELSE expect_plan(append_extend_operator_stand_alone(g, step))

\* join with the Join node pushed onto the children of the left plan's last node
join_push(g, other, join_keys) ==
  LET as_node_for_join == Node("As", <<g.roots[1] + 1, Len(g.nodes) + 1>>)
      left == expect_plan(insert_node(g, 0, as_node_for_join))
      left_size == Len(left.nodes)
      right_size == Len(other.nodes)
      offset(nd) ==
        [nd EXCEPT !.children = OffsetBy(nd.children, left_size),
                   !.parents = IF nd.opr = "Intersect"
                               THEN OffsetBy(nd.parents, left_size) ELSE nd.parents]
      other_nodes == [i \in DOMAIN other.nodes |-> offset(other.nodes[i])]
      join_node_idx == left_size + right_size
      join_node == [Node("Join", <<>>) EXCEPT !.left_keys = join_keys,
                                              !.right_keys = join_keys]
  IN IF g.roots = <<>> THEN [g EXCEPT !.kind = "Panic"]
     ELSE IF left.kind = "Panic" THEN left
     ELSE IF other.nodes = <<>> THEN [left EXCEPT !.kind = "Err"]
     ELSE [left EXCEPT
             !.nodes = Vec(SetLastChildren(left.nodes,
                                           Append(left.nodes[Len(left.nodes)].children,
                                                  join_node_idx))
                           \o SetLastChildren(other_nodes, <<join_node_idx>>)
                           \o <<join_node>>),
             !.vertex_labels_to_scan =
                 left.vertex_labels_to_scan \cup other.vertex_labels_to_scan]

\* an As without alias is put before the left plan, the right plan is offset
\* by the size of the left one, the last node of both points at the Join
join(g, other, join_keys) ==
  LET as_node_for_join == Node("As", <<g.roots[1] + 1, Len(g.nodes) + 1>>)
      left == expect_plan(insert_node(g, 0, as_node_for_join))
      left_size == Len(left.nodes)
      right_size == Len(other.nodes)
      offset(nd) ==
        [nd EXCEPT !.children = OffsetBy(nd.children, left_size),
                   !.parents = IF nd.opr = "Intersect"
                               THEN OffsetBy(nd.parents, left_size) ELSE nd.parents]
      other_nodes == [i \in DOMAIN other.nodes |-> offset(other.nodes[i])]
      join_node_idx == left_size + right_size
      join_node == [Node("Join", <<>>) EXCEPT !.left_keys = join_keys,
                                              !.right_keys = join_keys]
  IN IF g.roots = <<>> THEN [g EXCEPT !.kind = "Panic"]
     ELSE IF left.kind = "Panic" THEN left
     ELSE IF other.nodes = <<>> THEN [left EXCEPT !.kind = "Err"]
     ELSE [left EXCEPT
             !.nodes = Vec(SetLastChildren(left.nodes, <<join_node_idx>>)
                           \o SetLastChildren(other_nodes, <<join_node_idx>>)
                           \o <<join_node>>),
             !.vertex_labels_to_scan =
                 left.vertex_labels_to_scan \cup other.vertex_labels_to_scan]

\* the extend step that an extend approach stands for; the weight of a join
\* approach is no extend weight, and unwrapping it panics
pattern_roll_back(c, pattern, pattern_index, approach, pattern_meta) ==
  LET w == c.approaches[approach]
  IN IF w.kind # "ExtendStep"
     THEN [kind |-> "Panic", pre_pattern |-> pattern,
           definite_extend_step |-> DefiniteExtendStep(0, 0, FALSE),
           this_step_cost |-> CostCount_max_value]
     ELSE [kind |-> "Ok",
           pre_pattern |-> PlanPattern(w.src_pattern_index,
                                       c.nodes[w.src_pattern_index].vertices_num,
                                       pattern.predicates, <<>>),
           definite_extend_step |->
             DefiniteExtendStep(w.extend_num, pattern_meta, pattern.predicates),
           this_step_cost |-> estimate_extend_step_cost(c, approach)]

\* the join keys are the vertices that the build and the probe pattern share
generate_join_keys(c, approach) ==
  LET w == c.approaches[approach]
      shared == c.nodes[w.src_pattern_index].vertices_num
                + c.nodes[w.probe_pattern_node_index].vertices_num
                - c.nodes[w.target_pattern_index].vertices_num
  IN [i \in 1..shared |-> i - 1]

RECURSIVE generate_pattern_match_plan_recursively(_, _)

generate_pattern_match_plan_recursively_for_extend_approach(g, pattern, extend_approach) ==
  Only({
    IF rb.kind = "Panic" THEN [g EXCEPT !.kind = "Panic"]
    ELSE Only({
      IF src.kind = "Panic" THEN src
      ELSE append_extend_operator(src, rb.definite_extend_step)
      : src \in {expect_plan(generate_pattern_match_plan_recursively(g, rb.pre_pattern))}})
    : rb \in {pattern_roll_back(g.catalog, pattern, pattern.node_index, extend_approach,
                                g.pattern_meta)}})

generate_pattern_match_plan_recursively_for_join_approach(g, pattern, join_approach) ==
  LET w == g.catalog.approaches[join_approach]
      build_pattern == PlanPattern(w.src_pattern_index,
                                   g.catalog.nodes[w.src_pattern_index].vertices_num,
                                   pattern.predicates, <<>>)
      probe_pattern == PlanPattern(w.probe_pattern_node_index,
                                   g.catalog.nodes[w.probe_pattern_node_index].vertices_num,
                                   pattern.predicates, <<>>)
  IN Only({
       IF build.kind = "Panic" THEN build
       ELSE Only({
         IF probe.kind = "Panic" THEN [build EXCEPT !.kind = "Panic"]
         ELSE expect_plan(join(build, probe, generate_join_keys(g.catalog, join_approach)))
         : probe \in {expect_plan(generate_pattern_match_plan_recursively(
                         PlanGenerator_new(probe_pattern, g.catalog, g.pattern_meta,
                                           g.is_distributed),
                         probe_pattern))}})
       : build \in {expect_plan(generate_pattern_match_plan_recursively(g, build_pattern))}})

\* the plan of a pattern of the catalogue follows the memoized best approaches
generate_pattern_match_plan_recursively(g, pattern) ==
  IF pattern.node_index = None THEN [g EXCEPT !.kind = "Err"]
  ELSE IF pattern.vertices_num = 0 THEN [g EXCEPT !.kind = "Err"]
  ELSE IF pattern.vertices_num = 1
  THEN generate_pattern_match_plan_for_size_one_pattern(g, pattern.node_index)
  ELSE LET best_approach_opt == g.catalog.nodes[pattern.node_index].best_approach
       IN IF best_approach_opt = None THEN [g EXCEPT !.kind = "Err"]
          ELSE IF g.catalog.approaches[best_approach_opt].kind = "ExtendStep"
          THEN generate_pattern_match_plan_recursively_for_extend_approach(
                 g, pattern, best_approach_opt)
          ELSE generate_pattern_match_plan_recursively_for_join_approach(
                 g, pattern, best_approach_opt)

\* in the pure-extend plan space the leading Select is removed; a Scan of the
\* collected labels is put first
PlanGenerator_match_pb_plan_add_source(g) ==
  LET removed == IF g.catalog.plan_space = "ExtendWithIntersection"
                 THEN expect_plan(remove_node(g, 0)) ELSE g
      scan_node == [Node("Scan", <<1>>) EXCEPT !.tables = g.vertex_labels_to_scan]
  IN IF removed.kind = "Panic" THEN removed
     ELSE expect_plan(insert_node(removed, 0, scan_node))

PlanGenerator_pb_plan_add_count_sink_operator(g) ==
  LET pb_plan_len == Len(g.nodes)
  IN IF pb_plan_len = 0 THEN [g EXCEPT !.kind = "Panic"]
     ELSE [g EXCEPT !.nodes = SetLastChildren(g.nodes, <<pb_plan_len>>)
                               \o <<Node("GroupBy", <<pb_plan_len + 1>>),
                                    Node("Sink", <<>>)>>]

generate_pattern_match_plan(g) ==
  Only({
    IF r.kind = "Panic" THEN r
    ELSE Only({
      IF s.kind = "Panic" THEN s
      ELSE PlanGenerator_pb_plan_add_count_sink_operator(s)
      : s \in {PlanGenerator_match_pb_plan_add_source(r)}})
    : r \in {expect_plan(generate_pattern_match_plan_recursively(g, g.target_pattern))}})

(* --------------------------- heuristic plan ---------------------------- *)
\* the estimate of a pattern's count: the count of its catalogue node, and
\* for a pattern outside the catalogue an estimate of 1
estimate_pattern_count(c, pattern) ==
  IF pattern.node_index # None THEN c.nodes[pattern.node_index].count ELSE 1

get_predicate_num(pattern) == IF pattern.predicates THEN pattern.vertices_num ELSE 0

\* results of the step search: the steps, their cost, the catalogue with what
\* was memoized; or a panic
StepsOk(c, steps, cost) == [kind |-> "Ok", catalog |-> c, steps |-> steps, cost |-> cost]
StepsPanic(c) == [kind |-> "Panic", catalog |-> c, steps |-> <<>>, cost |-> CostCount_max_value]

RECURSIVE get_definite_extend_steps_in_catalog(_, _, _, _)

get_definite_extend_steps_in_catalog(c, pattern_index, pattern, pattern_meta) ==
  LET pattern_weight == c.nodes[pattern_index]
      predicate_num == get_predicate_num(pattern)
      approaches == pattern_in_approaches_iter(c, pattern_index)
      body(acc, approach) ==
        IF acc.kind = "Panic" THEN acc
        ELSE Only({
          IF rb.kind = "Panic" THEN [acc EXCEPT !.kind = "Panic"]
          ELSE Only({
            IF pre.kind = "Panic" THEN [acc EXCEPT !.kind = "Panic"]
            ELSE IF \/ get_predicate_num(rb.pre_pattern) > acc.max_predicate_num
                    \/ /\ cost_lt(add(pre.cost, rb.this_step_cost), acc.cost)
                       /\ get_predicate_num(rb.pre_pattern) = acc.max_predicate_num
                 THEN [kind |-> "Ok", catalog |-> pre.catalog,
                       steps |-> Append(pre.steps, rb.definite_extend_step),
                       cost |-> add(pre.cost, rb.this_step_cost),
                       max_predicate_num |-> get_predicate_num(rb.pre_pattern),
                       best_approach |-> approach]
                 ELSE [acc EXCEPT !.catalog = pre.catalog]
            : pre \in {get_definite_extend_steps_in_catalog(
                          acc.catalog, c.approaches[approach].src_pattern_index,
                          rb.pre_pattern, pattern_meta)}})
          : rb \in {pattern_roll_back(c, pattern, pattern_index, approach, pattern_meta)}})
  IN IF pattern.vertices_num = 1
     THEN StepsOk(c, <<DefiniteExtendStep(0, pattern_meta, pattern.predicates)>>,
                  from_src_pattern(pattern_weight.count))
     ELSE IF pattern_weight.best_approach # None /\ predicate_num = 0
     THEN Only({
            IF rb.kind = "Panic" THEN StepsPanic(c)
            ELSE Only({
              IF pre.kind = "Panic" THEN pre
              ELSE StepsOk(pre.catalog, Append(pre.steps, rb.definite_extend_step),
                           add_assign(pre.cost, rb.this_step_cost))
              : pre \in {get_definite_extend_steps_in_catalog(
                            c, c.approaches[pattern_weight.best_approach].src_pattern_index,
                            rb.pre_pattern, pattern_meta)}})
            : rb \in {pattern_roll_back(c, pattern, pattern_index,
                                        pattern_weight.best_approach, pattern_meta)}})
     ELSE IF approaches = <<>> THEN StepsPanic(c)
     ELSE Only({
            IF r.kind = "Panic" THEN StepsPanic(r.catalog)
            ELSE StepsOk(IF predicate_num = 0
                         THEN set_pattern_best_approach(r.catalog, pattern_index, r.best_approach)
                         ELSE r.catalog,
                         r.steps, r.cost)
            : r \in {FoldLeft(body,
                              [kind |-> "Ok", catalog |-> c, steps |-> <<>>,
                               cost |-> CostCount_max_value, max_predicate_num |-> 0,
                               best_approach |-> approaches[1]],
                              approaches)}})

RECURSIVE get_definite_extend_steps(_, _, _)

\* a pattern outside the catalogue takes the best of the steps that remove
\* one of its vertices; a pattern no vertex of which can be removed has no
\* steps
get_definite_extend_steps(pattern, c, pattern_meta) ==
  IF pattern.node_index # None
  THEN get_definite_extend_steps_in_catalog(c, pattern.node_index, pattern, pattern_meta)
  ELSE LET pattern_count == estimate_pattern_count(c, pattern)
           body(acc, sub) ==
             IF acc.kind = "Panic" THEN acc
             ELSE Only({
               IF pre.kind = "Panic" THEN [acc EXCEPT !.kind = "Panic"]
               ELSE Only({
                 IF \/ get_predicate_num(sub.pattern) > acc.max_predicate_num
                    \/ /\ cost_lt(add(pre.cost, this_step_cost), acc.cost)
                       /\ get_predicate_num(sub.pattern) = acc.max_predicate_num
                 THEN [kind |-> "Ok", catalog |-> pre.catalog,
                       steps |-> Append(pre.steps,
                                        DefiniteExtendStep(sub.extend_edges_num, pattern_meta,
                                                           pattern.predicates)),
                       cost |-> add(pre.cost, this_step_cost),
                       max_predicate_num |-> get_predicate_num(sub.pattern)]
                 ELSE [acc EXCEPT !.catalog = pre.catalog]
                 : this_step_cost \in {from_extend(estimate_pattern_count(c, sub.pattern),
                                                   pattern_count,
                                                   sub.extend_edges_num,
                                                   sub.extend_edges_num - 1,
                                                   sub.extend_edges_num)}})
               : pre \in {get_definite_extend_steps(sub.pattern, acc.catalog, pattern_meta)}})
       IN Only({
            IF r.kind = "Panic" THEN StepsPanic(r.catalog)
            ELSE StepsOk(r.catalog, r.steps, r.cost)
            : r \in {FoldLeft(body,
                              [kind |-> "Ok", catalog |-> c, steps |-> <<>>,
                               cost |-> CostCount_max_value, max_predicate_num |-> 0],
                              pattern.subs)}})

\* a plan under construction, or the Err of it
PlanOk(nodes) == [kind |-> "Ok", nodes |-> Vec(nodes)]
PlanErr == [kind |-> "Err", nodes |-> <<>>]
PlanPanic == [kind |-> "Panic", nodes |-> <<>>]

\* the steps arrive last step first and the source step last
build_distributed_match_plan(definite_extend_steps) ==
  IF definite_extend_steps = <<>> THEN PlanErr
  ELSE LET source_extend == definite_extend_steps[Len(definite_extend_steps)]
           start == <<Node("Select", <<1>>)>>
                    \o (IF source_extend.vertex_filter THEN <<Node("Select", <<2>>)>> ELSE <<>>)
           rest == Reverse(SubSeq(definite_extend_steps, 1, Len(definite_extend_steps) - 1))
           push_filter(st) ==
             [st EXCEPT !.nodes = Append(st.nodes,
                                         [st.pre_node EXCEPT !.children =
                                            Append(st.pre_node.children, st.child_offset)]),
                        !.pre_node = Node("Select", <<>>),
                        !.child_offset = st.child_offset + 1]
           body(st, step) ==
             IF st.kind = "Err" THEN st
             ELSE LET edge_expands_num == step.extend_edges_num
                      edge_expands_ids == [i \in 1..edge_expands_num |-> i - 1 + st.child_offset]
                      pushed == Append(st.nodes,
                                       [st.pre_node EXCEPT !.children =
                                          st.pre_node.children \o edge_expands_ids])
                      expanded ==
                        IF edge_expands_num > 1
                        THEN [st EXCEPT
                                !.nodes = pushed \o
                                   [i \in 1..edge_expands_num |->
                                      Node("EdgeExpand", <<st.child_offset + edge_expands_num>>)],
                                !.pre_node = [Node("Intersect", <<>>)
                                                EXCEPT !.parents = Vec(edge_expands_ids)],
                                !.child_offset = st.child_offset + edge_expands_num + 1]
                        ELSE [st EXCEPT !.nodes = pushed,
                                        !.pre_node = Node("EdgeExpand", <<>>),
                                        !.child_offset = st.child_offset + 1]
                      labelled == IF step.target_vertex_label_num > 1
                                  THEN push_filter(expanded) ELSE expanded
                  IN IF edge_expands_num = 0 THEN [st EXCEPT !.kind = "Err"]
                     ELSE IF step.vertex_filter THEN push_filter(labelled) ELSE labelled
           final == FoldLeft(body,
                             [kind |-> "Ok", nodes |-> start, pre_node |-> Node("As", <<>>),
                              child_offset |-> Len(start) + 1],
                             rest)
       IN IF final.kind = "Err" THEN PlanErr
          ELSE PlanOk(Append(final.nodes,
                             [final.pre_node EXCEPT !.children =
                                Append(final.pre_node.children, final.child_offset)]))

build_stand_alone_match_plan(definite_extend_steps) ==
  IF definite_extend_steps = <<>> THEN PlanErr
  ELSE LET source_extend == definite_extend_steps[Len(definite_extend_steps)]
           start == <<Node("Select", <<1>>)>>
                    \o (IF source_extend.vertex_filter THEN <<Node("Select", <<2>>)>> ELSE <<>>)
           rest == Reverse(SubSeq(definite_extend_steps, 1, Len(definite_extend_steps) - 1))
           body(st, step) ==
             IF st.kind = "Err" THEN st
             ELSE IF step.extend_edges_num = 0 THEN [st EXCEPT !.kind = "Err"]
             ELSE [st EXCEPT !.nodes = append_filters(
                     Append(st.nodes,
                            Node(IF step.extend_edges_num = 1
                                 THEN "EdgeExpand" ELSE "ExpandAndIntersect",
                                 <<Len(st.nodes) + 1>>)),
                     Len(st.nodes) + 2, step)]
           final == FoldLeft(body,
                             [kind |-> "Ok",
                              nodes |-> Append(start, Node("As", <<Len(start) + 1>>))],
                             rest)
       IN IF final.kind = "Err" THEN PlanErr ELSE PlanOk(final.nodes)

\* a leading Select is replaced by a Scan
match_pb_plan_add_source(pb_plan) ==
  IF pb_plan.nodes = <<>> THEN PlanPanic
  ELSE IF pb_plan.nodes[1].opr = "Select"
  THEN PlanOk(<<[Node("Scan", <<1>>) EXCEPT !.tables = {"source"}]>> \o Tail(pb_plan.nodes))
  ELSE pb_plan

pb_plan_add_count_sink_operator(pb_plan) ==
  PlanOk(pb_plan.nodes \o <<Node("GroupBy", <<Len(pb_plan.nodes) + 1>>), Node("Sink", <<>>)>>)

\* the result of plan generation: Ok(plan), Err(Unsupported) or a panic, with
\* the catalogue as generation leaves it
generate_heuristic_match_plan(pattern, c, pattern_meta, is_distributed) ==
  Only({
    IF found.kind = "Panic" THEN [kind |-> "Panic", nodes |-> <<>>, catalog |-> found.catalog]
    ELSE Only({
      IF pb_plan.kind # "Ok" THEN [kind |-> "Panic", nodes |-> <<>>, catalog |-> found.catalog]
      ELSE Only({
        IF sourced.kind # "Ok" THEN [kind |-> "Panic", nodes |-> <<>>, catalog |-> found.catalog]
        ELSE [kind |-> "Ok", nodes |-> pb_plan_add_count_sink_operator(sourced).nodes,
              catalog |-> found.catalog]
        : sourced \in {match_pb_plan_add_source(pb_plan)}})
      : pb_plan \in {IF is_distributed
                     THEN build_distributed_match_plan(Reverse(found.steps))
                     ELSE build_stand_alone_match_plan(Reverse(found.steps))}})
    : found \in {get_definite_extend_steps(pattern, c, pattern_meta)}})

\* a pattern outside the catalogue gets the heuristic plan; in the catalogue,
\* the pure binary-join plan space is refused, and otherwise the best
\* approaches are searched for and followed
generate_optimized_match_plan(pattern, c, pattern_meta, is_distributed) ==
  IF pattern.node_index = None
  THEN generate_heuristic_match_plan(pattern, c, pattern_meta, is_distributed)
  ELSE IF c.plan_space = "BinaryJoin"
  THEN [kind |-> "Err", nodes |-> <<>>, catalog |-> c]
  ELSE Only({
         IF best.kind = "Panic" THEN [kind |-> "Panic", nodes |-> <<>>, catalog |-> best.catalog]
         ELSE Only({
           [kind |-> g.kind, nodes |-> IF g.kind = "Ok" THEN g.nodes ELSE <<>>,
            catalog |-> best.catalog]
           : g \in {generate_pattern_match_plan(
                      PlanGenerator_new(pattern, best.catalog, pattern_meta, is_distributed))}})
         : best \in {set_best_approach_by_pattern(c, pattern.node_index)}})

\* catalogues that plans are generated from: those of the search, with every
\* count 1 and at most max_approaches approaches, and each of them with
\* one more node, one vertex larger than the last, reached from the last by
\* an extend approach or by joining the last with itself
OptCatalogues(max_approaches) ==
  LET small == Catalogues(max_approaches, {1})
      grown(c, approach) ==
        [c EXCEPT
           !.nodes = Map([i \in 0..(MaxCatNode + 1) |->
                            IF i <= MaxCatNode THEN c.nodes[i]
                            ELSE PatternWeight(c.nodes[MaxCatNode].vertices_num + 1, 1, None)]),
           !.approaches = Map([i \in 0..Cardinality(DOMAIN c.approaches) |->
                                 IF i \in DOMAIN c.approaches THEN c.approaches[i]
                                 ELSE approach])]
  IN small
     \cup {grown(c, ExtendApproach(MaxCatNode, MaxCatNode + 1, Only(AdjacencyValues), 0,
                                   extend_num))
             : c \in small, extend_num \in 1..MaxExtend}
     \cup {grown(c, JoinApproach(MaxCatNode, MaxCatNode + 1, MaxCatNode))
             : c \in {d \in small : d.nodes[MaxCatNode].vertices_num >= 2}}

\* the patterns a plan is asked for: the patterns of the catalogue, and
\* outside of it a single vertex, patterns of two vertices over an entry of
\* the catalogue or a vertex outside of it, and patterns of one vertex more
\* than a pattern of the catalogue or than a pattern outside of it
OptPatterns(c, predicates) ==
  LET inside(n) == PlanPattern(n, c.nodes[n].vertices_num, predicates, <<>>)
      off1 == PlanPattern(None, 1, predicates, <<>>)
      sub(extend_edges_num, pattern) ==
        [extend_edges_num |-> extend_edges_num, pattern |-> pattern]
      subs2 == {sub(1, inside(0)), sub(1, off1)}
      off2 == {PlanPattern(None, 2, predicates, s) :
                 s \in UNION {[1..n -> subs2] : n \in 1..MaxOffSubs}}
      subs3 == {sub(extend_edges_num, inside(n)) :
                  n \in {m \in DOMAIN c.nodes : c.nodes[m].vertices_num >= 2},
                  extend_edges_num \in 1..MaxExtend}
               \cup {sub(extend_edges_num, PlanPattern(None, 2, predicates, <<s>>)) :
                       s \in subs2, extend_edges_num \in 1..MaxExtend}
      off3 == {PlanPattern(None, s.pattern.vertices_num + 1, predicates, <<s>>) : s \in subs3}
  IN {inside(n) : n \in DOMAIN c.nodes} \cup {off1} \cup off2 \cup off3

InitOpt ==
  /\ pat = Pattern_default /\ comps = <<>>
  /\ budget = MaxPlans
  /\ op = "catalogue" /\ arg = <<>> /\ ret = ResNone
  /\ catalog \in OptCatalogues(MaxOptApproaches)
  /\ prev = catalog

\* the planner keeps the catalogue as plan generation leaves it
GenerateOptimizedMatchPlan ==
  \E predicates \in BOOLEAN, pattern_meta \in 1..2, is_distributed \in BOOLEAN :
    \E pattern \in OptPatterns(catalog, predicates) :
      /\ budget > 0
      /\ \E r \in {generate_optimized_match_plan(pattern, catalog, pattern_meta,
                                                 is_distributed)} :
           /\ catalog' = r.catalog
           /\ ret' = [kind |-> r.kind, nodes |-> r.nodes]
      /\ budget' = budget - 1
      /\ prev' = catalog
      /\ op' = "generate_optimized_match_plan"
      /\ arg' = [pattern |-> pattern, pattern_meta |-> pattern_meta,
                 is_distributed |-> is_distributed]
      /\ UNCHANGED <<pat, comps>>

NextOpt == GenerateOptimizedMatchPlan

SpecOpt == InitOpt /\ [][NextOpt]_vars

\* C14: a pattern outside the catalogue gets the heuristic plan; a pattern of
\* the catalogue is refused with Unsupported in the pure binary-join plan
\* space, the catalogue left as it was, and otherwise the best approaches
\* are memoized and the plan that follows them is returned
C14_OptimizedMatchPlan ==
  op = "generate_optimized_match_plan" =>
    /\ arg.pattern.node_index = None =>
         /\ ret.kind = "Ok"
         /\ ret.nodes = generate_heuristic_match_plan(
                          arg.pattern, prev, arg.pattern_meta, arg.is_distributed).nodes
    /\ (arg.pattern.node_index # None /\ prev.plan_space = "BinaryJoin") =>
         ret.kind = "Err" /\ catalog = prev
    /\ (arg.pattern.node_index # None /\ prev.plan_space # "BinaryJoin") =>
         /\ ret.kind = "Ok"
         /\ catalog = set_node_best_approach_recursively(prev, arg.pattern.node_index).catalog
         /\ ret.nodes = generate_pattern_match_plan(
                          PlanGenerator_new(arg.pattern, catalog, arg.pattern_meta,
                                            arg.is_distributed)).nodes

\* the indices of the EdgeExpand nodes whose only child is node j
ExpandsInto(nodes, j) ==
  SortedSeq({i \in 0..(Len(nodes) - 1) :
               nodes[i + 1].opr = "EdgeExpand" /\ nodes[i + 1].children = <<j>>})

\* C15: in an emitted distributed plan no expansion is fused, and every
\* Intersect node has two or more EdgeExpand nodes pointing at it and lists
\* exactly their indices as its parents
C15_IntersectParents ==
  (op = "generate_optimized_match_plan" /\ ret.kind = "Ok" /\ arg.is_distributed) =>
    \A j \in 0..(Len(ret.nodes) - 1) :
      /\ ret.nodes[j + 1].opr # "ExpandAndIntersect"
      /\ ret.nodes[j + 1].opr = "Intersect" =>
           /\ Len(ExpandsInto(ret.nodes, j)) >= 2
           /\ ret.nodes[j + 1].parents = ExpandsInto(ret.nodes, j)

\* the indices reached from the set S of indices along children
RECURSIVE ReachedFrom(_, _)
ReachedFrom(nodes, S) ==
  LET T == S \cup {c \in 0..(Len(nodes) - 1) :
                     \E i \in S : \E k \in DOMAIN nodes[i + 1].children :
                       nodes[i + 1].children[k] = c}
  IN IF T = S THEN S ELSE ReachedFrom(nodes, T)

\* a Join node at j: the node before it, and the node before the second
\* child of an As that forks the two sub-plans, point at it alone, and its
\* keys on both sides are the same
JoinedAt(nodes, j) ==
  /\ nodes[j + 1].left_keys = nodes[j + 1].right_keys
  /\ nodes[j].children = <<j>>
  /\ \E a \in 0..(j - 1) :
       /\ nodes[a + 1].opr = "As" /\ Len(nodes[a + 1].children) = 2
       /\ nodes[a + 1].children[1] = a + 1
       /\ nodes[a + 1].children[2] < j
       /\ nodes[nodes[a + 1].children[2]].children = <<j>>

WellFormed(nodes) ==
  LET n == Len(nodes)
  IN /\ n >= 3
     /\ nodes[1].opr = "Scan"
     /\ nodes[n].opr = "Sink" /\ nodes[n].children = <<>>
     /\ nodes[n - 1].opr = "GroupBy" /\ nodes[n - 1].children = <<n - 1>>
     /\ \A i \in 0..(n - 2) :
          /\ nodes[i + 1].children # <<>>
          /\ \A k \in DOMAIN nodes[i + 1].children :
               i < nodes[i + 1].children[k] /\ nodes[i + 1].children[k] <= n - 1
     /\ ReachedFrom(nodes, {0}) = 0..(n - 1)
     /\ \A j \in 0..(n - 1) : nodes[j + 1].opr = "Join" => JoinedAt(nodes, j)

\* C16: every emitted plan starts with a Scan, ends in a GroupBy and a Sink
\* without children, has on every other node children of larger valid
\* indices, reaches every node from node 0, and links both joined sub-plans
\* to their Join node
C16_WellFormedPlan ==
  (op = "generate_optimized_match_plan" /\ ret.kind = "Ok") => WellFormed(ret.nodes)

\* a distributed plan of the catalogue with a Join followed by an
\* intersection was emitted
C16_Witness ==
  /\ op = "generate_optimized_match_plan" /\ ret.kind = "Ok"
  /\ arg.pattern.node_index # None /\ arg.is_distributed
  /\ \E j \in DOMAIN ret.nodes, k \in DOMAIN ret.nodes :
       ret.nodes[j].opr = "Intersect" /\ ret.nodes[k].opr = "Join" /\ k < j

(* ------------------------- the labelled triangle ----------------------- *)
\* the triangle A:0, B:0, C:1 with the edges A->B of label 0, B->C of label
\* 1 and A->C of label 1, under the vertex ids v, the edge ids e and the
\* order of the edge list
Triangle(v, e, order) ==
  LET A == PatternVertex(v[1], 0)
      B == PatternVertex(v[2], 0)
      C == PatternVertex(v[3], 1)
      edges == <<PatternEdge(e[1], 0, A, B), PatternEdge(e[2], 1, B, C),
                 PatternEdge(e[3], 1, A, C)>>
  IN [A |-> v[1], B |-> v[2], C |-> v[3],
      edges |-> Vec([i \in 1..3 |-> edges[order[i]]])]

Injections(n, S) == {f \in [1..n -> S] : \A i, j \in 1..n : f[i] = f[j] => i = j}

InitTri ==
  /\ pat = Pattern_default /\ prev = Pattern_default /\ comps = <<>>
  /\ catalog = NoCatalogue
  /\ budget = 1
  /\ op = "triangle" /\ ret = ResNone
  /\ \E v \in Injections(3, 0..MaxTriVId), e \in Injections(3, 0..MaxTriEId),
        order \in Permutations(1..3) :
       arg = Triangle(v, e, order)

\* the program builds the pattern of the edge list
TryFrom ==
  /\ budget > 0
  /\ \E r \in {try_from(arg.edges)} :
       /\ ret' = r
       /\ pat' = IF r.kind = "Some" THEN r.pattern ELSE pat
  /\ budget' = budget - 1
  /\ op' = "try_from"
  /\ UNCHANGED <<prev, arg, comps, catalog>>

NextTri == TryFrom

SpecTri == InitTri /\ [][NextTri]_vars

\* C17: the pattern of the triangle has A and B in different groups, the
\* vertex ranks 0, 1 and 2, and rank 0 on A
C17_TriangleRanks ==
  op = "try_from" =>
    /\ ret.kind = "Some"
    /\ pat.vertices_data[arg.A].group # pat.vertices_data[arg.B].group
    /\ {pat.vertices_data[x].rank : x \in DOMAIN pat.vertices_data} = {0, 1, 2}
    /\ pat.vertices_data[arg.A].rank = 0

\* C17 as amended: the pattern of the triangle has A in group 1 and B in
\* group 0, and the vertex ranks 0 on B, 1 on C and 2 on A
C17_TriangleRanksFromB ==
  op = "try_from" =>
    /\ ret.kind = "Some"
    /\ pat.vertices_data[arg.A].group = 1 /\ pat.vertices_data[arg.B].group = 0
    /\ pat.vertices_data[arg.B].rank = 0
    /\ pat.vertices_data[arg.C].rank = 1
    /\ pat.vertices_data[arg.A].rank = 2

\* the triangle was built with the largest id on B and the smallest on C
C17_Witness ==
  /\ op = "try_from" /\ ret.kind = "Some"
  /\ arg.C < arg.A /\ arg.A < arg.B
  /\ DOMAIN pat.vertices = {arg.A, arg.B, arg.C}

(* ------------------------------ the sampler ---------------------------- *)
\* a data graph: the label of every vertex id and the edges (source, edge
\* label, destination) between them
LargeGraphDB(labels, edges) == [labels |-> labels, edges |-> edges]

\* the vertices of one label, in id order
get_all_vertices(graph, label) ==
  SortedSeq({v \in DOMAIN graph.labels : graph.labels[v] = label})

\* the vertices that the edges of one label lead to (Out) or come from (In)
get_adj_vertices(graph, v, edge_label, direction) ==
  IF direction = Out
  THEN {e[3] : e \in {x \in graph.edges : x[1] = v /\ x[2] = edge_label}}
  ELSE {e[1] : e \in {x \in graph.edges : x[3] = v /\ x[2] = edge_label}}

\* an extend edge with the vertex of the pattern that holds its source rank
DefiniteExtendEdge_from_extend_edge(extend_edge, pattern) ==
  [src_vertex |-> get_vertex_from_rank(pattern, extend_edge.src_vertex_rank),
   edge_label |-> extend_edge.edge_label, direction |-> extend_edge.direction]

\* the step that scans the only vertex of a single-vertex pattern
DefiniteExtendStep_try_from(pattern) ==
  [target_vertex |-> pattern.vertices[Only(DOMAIN pattern.vertices)], extend_edges |-> <<>>]

\* rates are multiples of 1 / RateDen, which an f64 holds exactly
RateDen == 4

\* f64 -> usize of a quotient by zero: infinity saturates
UsizeMax == 1000000000

PatternCountInfo(pattern, pattern_records, pattern_count) ==
  [pattern |-> pattern, pattern_records |-> pattern_records, pattern_count |-> pattern_count]

SubTask_new(pattern_count_info, extend_step, graph) ==
  [pattern_count_info |-> pattern_count_info, extend_step |-> extend_step, graph |-> graph]

get_adj_vertices_set(graph, pattern_record, extend_edge, target_vertex_label) ==
  LET src_graph_vertex_id == pattern_record[extend_edge.src_vertex.id]
  IN {graph_vertex \in get_adj_vertices(graph, src_graph_vertex_id, extend_edge.edge_label,
                                        extend_edge.direction)
        : graph.labels[graph_vertex] = target_vertex_label}

intersect_sets(set1, set2, is_start) == IF is_start THEN set2 ELSE set1 \cap set2

\* the swaps of sample_records: element i changes place with element i * step
RECURSIVE swap_picked(_, _, _, _)
swap_picked(records, step, i, n) ==
  IF i >= n THEN records
  ELSE swap_picked([records EXCEPT ![i + 1] = records[i * step + 1],
                                   ![i * step + 1] = records[i + 1]],
                   step, i + 1, n)

\* sample_records without the swaps: the head of the vector is kept
sample_records_head(records, rate, limit) ==
  LET len == Len(records)
      floor == (len * rate) \div RateDen
      expected_len == IF limit # None THEN Min({floor, limit}) ELSE floor
  IN IF limit # None /\ len <= limit THEN records
     ELSE SubSeq(records, 1, Min({expected_len, len}))

\* rate is rate / RateDen; limit is None or a number of records
sample_records(records, rate, limit) ==
  LET len == Len(records)
      floor == (len * rate) \div RateDen
      expected_len == IF limit # None THEN Min({floor, limit}) ELSE floor
      step == IF expected_len # 0 THEN len \div expected_len
              ELSE IF len = 0 THEN 0 ELSE UsizeMax
      swapped == IF step > 1 THEN swap_picked(records, step, 0, len \div step) ELSE records
  IN IF limit # None /\ len <= limit THEN records
     ELSE SubSeq(swapped, 1, Min({expected_len, len}))

\* split_vector without the last worker taking the remainder
split_vector_even(vector, thread_num, thread_id) ==
  SubSeq(vector, (Len(vector) \div thread_num) * thread_id + 1,
         (Len(vector) \div thread_num) * (thread_id + 1))

split_vector(vector, thread_num, thread_id) ==
  LET start_index == (Len(vector) \div thread_num) * thread_id
      end_index == IF thread_id = thread_num - 1 THEN Len(vector)
                   ELSE (Len(vector) \div thread_num) * (thread_id + 1)
  IN SubSeq(vector, start_index + 1, end_index)

\* one worker: the partial count it sends and the records it sends, in order
execute_internal(sub_task, thread_id, thread_num, is_end) ==
  LET pattern == sub_task.pattern_count_info.pattern
      target_vertex_id == get_max_vertex_id(pattern) + 1
      extend_edges == sub_task.extend_step.extend_edges
      body(acc, pattern_record) ==
        LET meet(intersect_vertices_set, i) ==
              intersect_sets(intersect_vertices_set,
                             get_adj_vertices_set(
                               sub_task.graph, pattern_record,
                               DefiniteExtendEdge_from_extend_edge(extend_edges[i], pattern),
                               sub_task.extend_step.target_vertex_label),
                             i = 1)
        IN Only({[count |-> acc.count + Len(adj),
                  records |-> IF is_end THEN acc.records
                              ELSE acc.records \o
                                   Vec([k \in 1..Len(adj) |->
                                          Map(Insert(pattern_record, target_vertex_id, adj[k]))])]
                 : adj \in {SortedSeq(FoldLeft(meet, {},
                                               Vec([i \in 1..Len(extend_edges) |-> i])))}})
  IN FoldLeft(body, [count |-> 0, records |-> <<>>],
              split_vector(sub_task.pattern_count_info.pattern_records, thread_num, thread_id))

\* the order in which the records of the workers arrive on the channel: the
\* k-th record comes from the worker sched names for k if that worker has a
\* record left to send, and from the first worker that has one otherwise
RECURSIVE received(_, _, _)
received(queues, sched, k) ==
  LET waiting == {t \in DOMAIN queues : queues[t] # <<>>}
      named == sched[((k - 1) % Len(sched)) + 1]
      t == IF named \in waiting THEN named ELSE Min(waiting)
  IN IF waiting = {} THEN <<>>
     ELSE <<Head(queues[t])>> \o received([queues EXCEPT ![t] = Tail(@)], sched, k + 1)

\* the workers of a sub-task after the main thread joined them: what each
\* sent, by thread id + 1
spawn_and_join(sub_task, thread_num, is_end) ==
  Vec([t \in 1..thread_num |-> execute_internal(sub_task, t - 1, thread_num, is_end)])

\* the two channels drained: the sum of the partial counts and the records
\* in their order of arrival
drain(parts, sched) ==
  [target_pattern_count |-> FoldLeft(LAMBDA acc, part : acc + part.count, 0, parts),
   target_pattern_records |->
     received(Vec([t \in 1..Len(parts) |-> parts[t].records]), sched, 1)]

\* the scaled count: pattern_count * (target_pattern_count / len) in f64,
\* truncated; the quotient is exact for the counts of the model's graphs
execute(sub_task, thread_num, rate, limit, is_end, sched) ==
  LET len == Len(sub_task.pattern_count_info.pattern_records)
      result(drained) ==
        [target_pattern_records |->
           sample_records(drained.target_pattern_records, rate, limit),
         target_pattern_count |->
           IF len = 0 THEN 0
           ELSE (sub_task.pattern_count_info.pattern_count * drained.target_pattern_count)
                \div len]
  IN Only({result(drained)
           : drained \in {drain(parts, sched)
                           : parts \in {spawn_and_join(sub_task, thread_num, is_end)}}})

get_src_records(graph, extend_steps, limit) ==
  LET src_vertex == Head(extend_steps).target_vertex
      vs == get_all_vertices(graph, src_vertex.label)
      start == Vec([i \in 1..Len(vs) |-> Map(Insert(EmptyMap, src_vertex.id, vs[i]))])
      body(pattern_records, extend_step) ==
        LET taken == IF limit # None
                     THEN SubSeq(pattern_records, 1, Min({limit, Len(pattern_records)}))
                     ELSE pattern_records
            grow(pattern_record) ==
              LET meet(intersect_vertices, i) ==
                    intersect_sets(intersect_vertices,
                                   get_adj_vertices_set(graph, pattern_record,
                                                        extend_step.extend_edges[i],
                                                        extend_step.target_vertex.label),
                                   i = 1)
                  adj == SortedSeq(FoldLeft(meet, {},
                                            Vec([i \in 1..Len(extend_step.extend_edges) |-> i])))
              IN Vec([k \in 1..Len(adj) |->
                        Map(Insert(pattern_record, extend_step.target_vertex.id, adj[k]))])
        IN Flatten(Vec([i \in 1..Len(taken) |-> grow(taken[i])]))
  IN FoldLeft(body, start, Tail(extend_steps))

\* a catalogue whose nodes carry their patterns: a node is its pattern and the
\* count stored on it (None before an estimate), an arc its extend step
SampleNode(pattern) == [pattern |-> pattern, count |-> None]

SampleApproach(src, target, extend_step) ==
  [src_pattern_index |-> src, target_pattern_index |-> target, kind |-> "ExtendStep",
   extend_step |-> extend_step]

entries_iter(c) ==
  SortedSeq({i \in DOMAIN c.nodes : get_vertices_num(c.nodes[i].pattern) = 1})

pattern_out_approaches_iter(c, node_index) ==
  SortedSeq({a \in DOMAIN c.approaches : c.approaches[a].src_pattern_index = node_index})

set_pattern_count_with_index(c, pattern_index, count) ==
  [c EXCEPT !.nodes[pattern_index].count = count]

get_start_pattern_count_infos(c, graph, rate, limit) ==
  LET info(start_pattern_index) ==
        LET pattern == c.nodes[start_pattern_index].pattern
            extend_steps == <<DefiniteExtendStep_try_from(pattern)>>
        IN Only({PatternCountInfo(pattern, sample_records(pattern_records, rate, limit),
                                  Len(pattern_records))
                 : pattern_records \in {get_src_records(graph, extend_steps, limit)}})
      starts == entries_iter(c)
  IN Map([i \in {starts[k] : k \in DOMAIN starts} |-> info(i)])

\* the sub-task of a next pattern extends the held source of the smallest
\* count that has records; a next pattern without such a source gets none
generate_sub_tasks(c, pattern_count_infos, graph) ==
  LET next_pattern_indices ==
        {c.approaches[a].target_pattern_index :
           a \in {x \in DOMAIN c.approaches :
                    /\ c.approaches[x].src_pattern_index \in DOMAIN pattern_count_infos
                    /\ c.approaches[x].kind = "ExtendStep"}}
      choose(next_pattern_index) ==
        LET body(acc, approach) ==
              LET src == c.approaches[approach].src_pattern_index
              IN IF src \in DOMAIN pattern_count_infos
                    /\ pattern_count_infos[src].pattern_count < acc.min_count
                    /\ pattern_count_infos[src].pattern_records # <<>>
                 THEN [min_count |-> pattern_count_infos[src].pattern_count,
                       src |-> src, approach |-> approach]
                 ELSE acc
        IN FoldLeft(body, [min_count |-> UsizeMax, src |-> None, approach |-> None],
                    pattern_in_approaches_iter(c, next_pattern_index))
  IN Only({Map([n \in {x \in DOMAIN chosen : chosen[x].src # None} |->
                  SubTask_new(pattern_count_infos[chosen[n].src],
                              c.approaches[chosen[n].approach].extend_step, graph)])
           : chosen \in {Map([n \in next_pattern_indices |-> choose(n)])}})

execcute_sub_tasks(c, sub_tasks, thread_num, rate, limit, sched) ==
  LET run(target_pattern_index) ==
        LET sub_task == sub_tasks[target_pattern_index]
            is_end == pattern_out_approaches_iter(c, target_pattern_index) = <<>>
            target_pattern == extend(sub_task.pattern_count_info.pattern,
                                     sub_task.extend_step).pattern
        IN Only({PatternCountInfo(target_pattern, sub_task_result.target_pattern_records,
                                  sub_task_result.target_pattern_count)
                 : sub_task_result \in
                     {execute(sub_task, thread_num, rate, limit, is_end, sched)}})
  IN Map([n \in DOMAIN sub_tasks |-> run(n)])

update_pattern_counts_map(pattern_counts_map, pattern_count_infos) ==
  Map([n \in DOMAIN pattern_counts_map \cup DOMAIN pattern_count_infos |->
         IF n \in DOMAIN pattern_count_infos THEN pattern_count_infos[n].pattern_count
         ELSE pattern_counts_map[n]])

\* sparsify_rate maps (source label, edge label, destination label) to d for
\* the rate 1 / d: the count is divided by the rate of every edge that has one
set_pattern_count_with_rate(c, pattern_index, pattern_count, sparsify_rate) ==
  LET pattern == c.nodes[pattern_index].pattern
      body(estimate_result, e) ==
        LET edge == pattern.edges[e]
            keys == <<edge.start_vertex.label, edge.label, edge.end_vertex.label>>
        IN IF keys \in DOMAIN sparsify_rate THEN estimate_result * sparsify_rate[keys]
           ELSE estimate_result
  IN set_pattern_count_with_index(
       c, pattern_index, FoldLeft(body, pattern_count, SortedSeq(DOMAIN pattern.edges)))

\* the loop of estimate_graph: level by level until no pattern is counted
RECURSIVE estimate_levels(_, _, _, _, _, _, _, _)
estimate_levels(c, graph, pattern_count_infos, pattern_counts_map, rate, limit, thread_num, sched) ==
  IF DOMAIN pattern_count_infos = {} THEN pattern_counts_map
  ELSE Only({estimate_levels(c, graph, next, update_pattern_counts_map(pattern_counts_map, next),
                             rate, limit, thread_num, sched)
             : next \in {execcute_sub_tasks(c, sub_tasks, thread_num, rate, limit, sched)
                          : sub_tasks \in {generate_sub_tasks(c, pattern_count_infos, graph)}}})

estimate_graph(c, graph, rate, sparsify_rate, limit, thread_num, sched) ==
  LET start == get_start_pattern_count_infos(c, graph, rate, limit)
      store(pattern_counts_map) ==
        LET body(catalogue, pattern_index) ==
              set_pattern_count_with_rate(catalogue, pattern_index,
                                          pattern_counts_map[pattern_index], sparsify_rate)
        IN FoldLeft(body, c, SortedSeq(DOMAIN pattern_counts_map))
  IN Only({store(pattern_counts_map)
           : pattern_counts_map \in
               {Only({estimate_levels(c, graph, s, update_pattern_counts_map(EmptyMap, s),
                                      rate, limit, thread_num, sched) : s \in {start}})}})

\* the schema of the sampled graphs: edges of label 0 from label 0 to either label
SampleMeta == PatternMeta(VLabels, {<<0, 0, 0>>, <<0, 0, 1>>})

\* the patterns that extend steps of the schema grow from a pattern of P in
\* n steps or fewer
RECURSIVE Grown(_, _)
Grown(P, n) ==
  IF n = 0 THEN P
  ELSE P \cup Grown(UNION {UNION {{extend(p, steps[k]).pattern : k \in DOMAIN steps}
                                   : steps \in {get_extend_steps(p, SampleMeta, MaxLimit)}}
                            : p \in P}, n - 1)

\* label- and direction-preserving bijections between two patterns
Isomorphic(p, q) ==
  /\ Cardinality(DOMAIN p.vertices) = Cardinality(DOMAIN q.vertices)
  /\ Cardinality(DOMAIN p.edges) = Cardinality(DOMAIN q.edges)
  /\ \E f \in [DOMAIN p.vertices -> DOMAIN q.vertices] :
       /\ \A u, v \in DOMAIN p.vertices : f[u] = f[v] => u = v
       /\ \A u \in DOMAIN p.vertices : p.vertices[u].label = q.vertices[f[u]].label
       /\ {<<f[p.edges[e].start_vertex.id], p.edges[e].label, f[p.edges[e].end_vertex.id]>>
             : e \in DOMAIN p.edges}
          = {<<q.edges[e].start_vertex.id, q.edges[e].label, q.edges[e].end_vertex.id>>
             : e \in DOMAIN q.edges}

\* the sub-pattern of p on the vertices S
Induced(p, S) ==
  IF Cardinality(S) = 1 THEN ResSome(Pattern_from(p.vertices[Only(S)]))
  ELSE LET es == SortedSeq({e \in DOMAIN p.edges : /\ p.edges[e].start_vertex.id \in S
                                                   /\ p.edges[e].end_vertex.id \in S})
       IN try_from(Vec([k \in 1..Len(es) |-> p.edges[es[k]]]))

\* the catalogue of a pattern: one node per connected sub-pattern up to
\* isomorphism, smaller patterns first, and one extend arc per extend step of
\* the schema that leads from the pattern of a node to the pattern of another
build_from_pattern(p) ==
  LET V == DOMAIN p.vertices
      sub(S) == IF S = V THEN ResSome(p) ELSE Induced(p, S)
      pats == {r.pattern : r \in {x \in {[kind |-> sub(S).kind, pattern |-> sub(S).pattern,
                                            on |-> S] : S \in SUBSET V \ {{}}} :
                                    /\ x.kind = "Some"
                                    /\ DOMAIN x.pattern.vertices = x.on
                                    /\ is_connected(x.pattern)}}
      size(q) == Cardinality(DOMAIN q.vertices)
      RECURSIVE list(_, _)
      list(rest, kept) ==
        IF rest = {} THEN kept
        ELSE LET n == Min({size(q) : q \in rest})
                 q == CHOOSE x \in rest : size(x) = n
             IN list(rest \ {q},
                     IF \E k \in DOMAIN kept : Isomorphic(kept[k], q) THEN kept
                     ELSE Append(kept, q))
      arcs(nodes, i) ==
        LET to(steps, grown, j) ==
              SelectSeq(Vec([k \in 1..Len(steps) |-> k]),
                        LAMBDA k : /\ grown[k].kind = "Some"
                                   /\ Isomorphic(grown[k].pattern, nodes[j]))
            from(steps, grown) ==
              Flatten(Vec([j \in 1..Len(nodes) |->
                             Only({Vec([k \in 1..Len(ks) |->
                                          SampleApproach(i - 1, j - 1, steps[ks[k]])])
                                   : ks \in {to(steps, grown, j)}})]))
        IN Only({Only({from(steps, grown)
                       : grown \in {Vec([k \in 1..Len(steps) |-> extend(nodes[i], steps[k])])}})
                 : steps \in {get_extend_steps(nodes[i], SampleMeta, MaxLimit)}})
      catalogue(nodes, all) ==
        [nodes |-> Map([i \in 0..(Len(nodes) - 1) |-> SampleNode(nodes[i + 1])]),
         approaches |-> Map([a \in 0..(Len(all) - 1) |-> all[a + 1]]),
         plan_space |-> "Hybrid"]
  IN Only({Only({catalogue(nodes, all)
                 : all \in {Flatten(Vec([i \in 1..Len(nodes) |-> arcs(nodes, i)]))}})
           : nodes \in {list(S, <<>>) : S \in {pats}}})

\* one pattern of every isomorphism class of P
Representatives(P) ==
  LET RECURSIVE pick(_, _)
      pick(rest, kept) ==
        IF rest = {} THEN kept
        ELSE LET p == CHOOSE x \in rest : TRUE
             IN pick(rest \ {p},
                     IF \E q \in kept : Isomorphic(p, q) THEN kept ELSE kept \cup {p})
  IN pick(P, {})

\* the catalogues of the patterns of max_size vertices or fewer, one per
\* isomorphism class
SampleCatalogues(max_size) ==
  {build_from_pattern(p)
     : p \in Representatives(
                Grown({Pattern_from(PatternVertex(0, l)) : l \in VLabels}, max_size - 1))}

\* the data graphs of the schema: the vertices 1..max_v with labels that do
\* not decrease with the id, and max_e edges or fewer
Graphs(max_v, max_e) ==
  UNION {{LargeGraphDB(labels, edges)
            : edges \in {E \in SUBSET {e \in (1..max_v) \X ELabels \X (1..max_v) :
                                         <<labels[e[1]], e[2], labels[e[3]]>>
                                           \in SampleMeta.triples} :
                           Cardinality(E) <= max_e}}
         : labels \in {l \in [1..max_v -> VLabels] :
                         \A v \in 1..(max_v - 1) : l[v] <= l[v + 1]}}

Rates == {RateDen \div 2, RateDen}

\* no sparsification, or every second edge of the schema kept
SparsifyRates == {EmptyMap, Map([t \in SampleMeta.triples |-> 2])}

InitSample ==
  /\ pat = Pattern_default /\ comps = <<>> /\ ret = ResNone
  /\ budget = 1
  /\ op = "build_from_pattern"
  /\ catalog \in SampleCatalogues(MaxSampleSize)
  /\ prev = catalog
  /\ \E graph \in Graphs(MaxGraphV, MaxGraphE) : arg = [graph |-> graph]

\* the catalogue keeps the counts of the patterns the estimate reached
EstimateGraph ==
  \E thread_num \in 1..MaxThreads, rate \in Rates, limit \in {None, MaxRecLimit},
     sparsify_rate \in SparsifyRates :
    \E sched \in [1..MaxSched -> 1..thread_num] :
      /\ budget > 0
      /\ catalog' = estimate_graph(catalog, arg.graph, rate, sparsify_rate, limit,
                                   thread_num, sched)
      /\ budget' = budget - 1
      /\ prev' = catalog
      /\ op' = "estimate_graph"
      /\ arg' = [graph |-> arg.graph, rate |-> rate, sparsify_rate |-> sparsify_rate,
                 limit |-> limit, thread_num |-> thread_num, sched |-> sched]
      /\ UNCHANGED <<pat, comps, ret>>

NextSample == EstimateGraph

SpecSample == InitSample /\ [][NextSample]_vars

\* the matches of a pattern in a data graph: the injective maps of its
\* vertices to vertices of the graph that keep labels and directed edges
Embeddings(p, graph) ==
  {f \in [DOMAIN p.vertices -> DOMAIN graph.labels] :
     /\ \A u, v \in DOMAIN p.vertices : f[u] = f[v] => u = v
     /\ \A u \in DOMAIN p.vertices : graph.labels[f[u]] = p.vertices[u].label
     /\ \A e \in DOMAIN p.edges :
          <<f[p.edges[e].start_vertex.id], p.edges[e].label, f[p.edges[e].end_vertex.id]>>
            \in graph.edges}

\* C18: after estimate_graph with rate 1.0, no limit and no sparsification
\* the count stored on every node the estimate reached is the number of
\* matches of the node's pattern in the data graph
C18_ExhaustiveCount ==
  (/\ op = "estimate_graph"
   /\ arg.rate = RateDen /\ arg.limit = None /\ arg.sparsify_rate = EmptyMap)
  => \A n \in DOMAIN catalog.nodes :
        catalog.nodes[n].count # None
          => catalog.nodes[n].count = Cardinality(Embeddings(catalog.nodes[n].pattern, arg.graph))

(* --------------------------- record sampling --------------------------- *)
\* a vector of n records, the i-th mapping pattern vertex 0 to data vertex i
RecordVector(n) == Vec([i \in 1..n |-> Map(Insert(EmptyMap, 0, i))])

InitRecords ==
  /\ pat = Pattern_default /\ prev = Pattern_default /\ comps = <<>>
  /\ catalog = NoCatalogue /\ ret = ResNone
  /\ budget = 1
  /\ op = "records"
  /\ \E n \in 0..MaxRecords : arg = [records |-> RecordVector(n)]

\* sample_records takes the vector and returns the sampled one
SampleRecords ==
  \E rate \in 0..RateDen, limit \in {None} \cup 0..MaxRecords :
    /\ budget > 0
    /\ ret' = [kind |-> "Records", records |-> sample_records(arg.records, rate, limit)]
    /\ arg' = [records |-> arg.records, rate |-> rate, limit |-> limit]
    /\ budget' = budget - 1
    /\ op' = "sample_records"
    /\ UNCHANGED <<pat, prev, comps, catalog>>

NextRecords == SampleRecords

SpecRecords == InitRecords /\ [][NextRecords]_vars

\* C19: for a vector of n records, a rate in [0, 1] and the limit Some(L),
\* sample_records returns min(n, L) records or more
C19_LowerBound ==
  (op = "sample_records" /\ arg.limit # None)
  => Len(ret.records) >= Min({Len(arg.records), arg.limit})

(* ------------------------ the order of adjacencies ---------------------- *)
\* what cmp_adjacencies compares, read from the labeled pattern
AdjacencyKey(p, adj) ==
  <<adj.direction, adj.adj_vertex.label, adj.edge_label,
    p.vertices_data[adj.adj_vertex.id].group, p.vertices_data[adj.adj_vertex.id].rank>>

NonDecreasing(p, list) ==
  \A i \in 1..(Len(list) - 1) :
     cmp_tuple(AdjacencyKey(p, list[i]), AdjacencyKey(p, list[i + 1])) # Greater

\* the adjacencies of v start with one adjacency per edge that leaves v, go
\* on with one per edge that enters v, and each part is in canonical order
OutThenInOrdered(p, v) ==
  LET all == adjacencies_iter(p, v)
      outs == {e \in DOMAIN p.edges : p.edges[e].start_vertex.id = v}
      ins == {e \in DOMAIN p.edges : p.edges[e].end_vertex.id = v}
      k == Cardinality(outs)
      first == SubSeq(all, 1, k)
      rest == SubSeq(all, k + 1, Len(all))
  IN /\ Len(all) = k + Cardinality(ins)
     /\ {first[i].edge_id : i \in DOMAIN first} = outs
     /\ {rest[i].edge_id : i \in DOMAIN rest} = ins
     /\ \A i \in DOMAIN all : all[i].adj_vertex.id \in DOMAIN p.vertices_data
     /\ NonDecreasing(p, first) /\ NonDecreasing(p, rest)

\* C20: for every vertex v of a canonicalized pattern adjacencies_iter(v)
\* yields the outgoing adjacencies of v and then the incoming ones, each
\* part non-decreasing under (direction, adjacent vertex label, edge label,
\* adjacent vertex group, adjacent vertex rank)
C20_AdjacenciesIter ==
  (Canonicalized /\ ret.kind = "Some")
  => \A v \in DOMAIN ret.pattern.vertices : OutThenInOrdered(ret.pattern, v)

(* ------------------------- one sub-task, executed ---------------------- *)
\* the sub-tasks that the first two levels of an estimate generate
SubTasks(c, graph) ==
  LET tasks(infos) == generate_sub_tasks(c, infos, graph)
      range(m) == {m[k] : k \in DOMAIN m}
      second(first) ==
        range(first) \cup
        range(tasks(execcute_sub_tasks(c, first, 1, RateDen, None, <<1>>)))
  IN Only({second(first)
           : first \in {tasks(get_start_pattern_count_infos(c, graph, RateDen, None))}})

\* the records that the workers of a sub-task send, all together
ProducedNum(sub_task) == execute_internal(sub_task, 0, 1, FALSE).count

InitExec ==
  /\ pat = Pattern_default /\ prev = Pattern_default /\ comps = <<>>
  /\ catalog = NoCatalogue /\ ret = ResNone
  /\ budget = 1
  /\ op = "sub_task"
  /\ \E c \in SampleCatalogues(MaxSampleSize), graph \in Graphs(MaxGraphV, MaxGraphE) :
       \E sub_task \in SubTasks(c, graph) : arg = [sub_task |-> sub_task]

\* SubTask::execute under one order of arrival of the workers' records: a
\* schedule as long as the records sent names every order
Execute ==
  \E thread_num \in 1..MaxExecThreads, rate \in Rates, limit \in {None, MaxRecLimit},
     is_end \in BOOLEAN :
    \E sched \in [1..Max({1, ProducedNum(arg.sub_task)}) -> 1..thread_num] :
      /\ budget > 0
      /\ \E parts \in {spawn_and_join(arg.sub_task, thread_num, is_end)} :
           ret' = [kind |-> "SubTaskResult",
                   slices |-> Vec([t \in 1..thread_num |->
                                     split_vector(arg.sub_task.pattern_count_info.pattern_records,
                                                  thread_num, t - 1)]),
                   drained |-> drain(parts, sched),
                   result |-> execute(arg.sub_task, thread_num, rate, limit, is_end, sched)]
      /\ arg' = [sub_task |-> arg.sub_task, thread_num |-> thread_num, rate |-> rate,
                 limit |-> limit, is_end |-> is_end, sched |-> sched]
      /\ budget' = budget - 1
      /\ op' = "execute"
      /\ UNCHANGED <<pat, prev, comps, catalog>>

NextExec == Execute

SpecExec == InitExec /\ [][NextExec]_vars

\* the data vertices that one input record of a sub-task extends to
Extensions(sub_task, pattern_record) ==
  LET pattern == sub_task.pattern_count_info.pattern
      edges == sub_task.extend_step.extend_edges
      adj(i) == LET src == get_vertex_from_rank(pattern, edges[i].src_vertex_rank)
                    from == pattern_record[src.id]
                    near == IF edges[i].direction = Out
                            THEN {e[3] : e \in {x \in sub_task.graph.edges :
                                                  x[1] = from /\ x[2] = edges[i].edge_label}}
                            ELSE {e[1] : e \in {x \in sub_task.graph.edges :
                                                  x[3] = from /\ x[2] = edges[i].edge_label}}
                IN {v \in near : sub_task.graph.labels[v] = sub_task.extend_step.target_vertex_label}
  IN {v \in DOMAIN sub_task.graph.labels : \A i \in DOMAIN edges : v \in adj(i)}

\* the number of elements of a sequence that equal x
Occurrences(seq, x) == Cardinality({i \in DOMAIN seq : seq[i] = x})

\* C21: the slices of the workers, in thread order, are the input vector cut
\* at increasing indices, so every input record is in exactly one slice; the
\* drained partial counts add up to the sum of the intersection sizes of the
\* input records; and unless the target is terminal every produced record
\* is received exactly once, whatever the order of arrival
C21_SlicesAndDrain ==
  op = "execute" =>
    LET records == arg.sub_task.pattern_count_info.pattern_records
        target_vertex_id == get_max_vertex_id(arg.sub_task.pattern_count_info.pattern) + 1
        produced == {<<i, v>> : i \in DOMAIN records, v \in DOMAIN arg.sub_task.graph.labels}
        made == {x \in produced : x[2] \in Extensions(arg.sub_task, records[x[1]])}
        total == FoldLeft(LAMBDA acc, i : acc + Cardinality(Extensions(arg.sub_task, records[i])),
                          0, Vec([i \in 1..Len(records) |-> i]))
        got == ret.drained.target_pattern_records
    IN /\ Flatten(ret.slices) = records
       /\ Len(ret.slices) = arg.thread_num
       /\ ret.drained.target_pattern_count = total
       /\ ~arg.is_end =>
            /\ Len(got) = Cardinality(made)
            /\ \A x \in made :
                  Occurrences(got, Map(Insert(records[x[1]], target_vertex_id, x[2])))
                  = Cardinality({y \in made : records[y[1]] = records[x[1]] /\ y[2] = x[2]})
       /\ arg.is_end => got = <<>>

\* three workers ran on three or more input records, their records arrived
\* in an order that is not the thread order, and two or more were received
C21_Witness ==
  /\ op = "execute" /\ arg.thread_num = 3 /\ ~arg.is_end
  /\ Len(arg.sub_task.pattern_count_info.pattern_records) >= 3
  /\ Len(ret.drained.target_pattern_records) >= 2
  /\ ret.drained.target_pattern_records
     # drain(spawn_and_join(arg.sub_task, arg.thread_num, FALSE), <<1>>).target_pattern_records

\* C22: the result of SubTask::execute, its estimated count and the records
\* it hands to the next level, is the one that the workers' records give
\* when they arrive in thread order, whatever their order of arrival
C22_OrderOfArrival ==
  op = "execute" =>
    \E in_order \in {execute(arg.sub_task, arg.thread_num, arg.rate, arg.limit, arg.is_end,
                               <<1>>)} :
       /\ ret.result.target_pattern_count = in_order.target_pattern_count
       /\ {ret.result.target_pattern_records[i] : i \in DOMAIN ret.result.target_pattern_records}
          = {in_order.target_pattern_records[i] : i \in DOMAIN in_order.target_pattern_records}

(* ------------------------ tags and predicates -------------------------- *)
\* what the encoding of p is read from: its vertices and edges, each
\* vertex's adjacency lists, group and rank, each edge's rank, and the maps
\* from ranks to ids
Structure(p) ==
  [vertices |-> p.vertices,
   edges |-> p.edges,
   out_adjacencies |-> Map([v \in DOMAIN p.vertices_data |-> p.vertices_data[v].out_adjacencies]),
   in_adjacencies |-> Map([v \in DOMAIN p.vertices_data |-> p.vertices_data[v].in_adjacencies]),
   group |-> Map([v \in DOMAIN p.vertices_data |-> p.vertices_data[v].group]),
   vertex_rank |-> Map([v \in DOMAIN p.vertices_data |-> p.vertices_data[v].rank]),
   edge_rank |-> Map([e \in DOMAIN p.edges_data |-> p.edges_data[e].rank]),
   rank_vertex_map |-> p.rank_vertex_map,
   rank_edge_map |-> p.rank_edge_map]

Setters == {"set_vertex_tag", "set_edge_tag", "set_vertex_predicate", "set_edge_predicate"}

\* C23: set_vertex_tag, set_edge_tag, set_vertex_predicate and
\* set_edge_predicate leave the vertices, the edges, the adjacency lists, the
\* groups and the ranks of the pattern as they were, and canonical labeling
\* run after them gives the groups and ranks the pattern had before them
C23_NotStructural ==
  op \in Setters =>
    /\ Structure(pat) = Structure(prev)
    /\ \E after \in {canonical_labeling(pat)} :
         after # Panicked /\ Structure(after) = Structure(prev)

\* a tag or a predicate was put on an element of a pattern with an edge
C23_Witness ==
  /\ op \in Setters
  /\ ret.kind = "Some"
  /\ pat # prev
  /\ DOMAIN pat.edges # {}
  /\ \/ \E v \in DOMAIN pat.vertices_data : pat.vertices_data[v].predicate # None
     \/ \E e \in DOMAIN pat.edges_data : pat.edges_data[e].tag # None

(* ------------------------- grouping passes ----------------------------- *)
\* the managers that the loop of vertex_grouping goes through: the one it
\* starts from, then the one after every call of refine_vertex_groups, the
\* trace being cut after limit calls
RECURSIVE grouping_passes(_, _, _)
grouping_passes(m, pattern, limit) ==
  IF m.has_converged \/ m.panicked \/ limit = 0 THEN <<m>>
  ELSE Only({<<m>> \o grouping_passes(refined, pattern, limit - 1)
             : refined \in {refine_vertex_groups(m, pattern)}})

\* the passes of vertex_grouping on the pattern p, two more than its
\* vertices at most
PassesOf(p) ==
  grouping_passes(CanonicalLabelManager_from(p), p, Cardinality(DOMAIN p.vertices) + 2)

\* the pass from the manager m to the manager n keeps every vertex of a
\* bucket (label, g) of size s within the groups g .. g + s - 1, and these
\* ranges of two buckets of one label do not meet
PassInRange(m, n) ==
  /\ \A k \in DOMAIN m.vertex_groups : \A i \in 1..Len(m.vertex_groups[k]) :
        /\ n.vertex_group_map[m.vertex_groups[k][i]] >= k[2]
        /\ n.vertex_group_map[m.vertex_groups[k][i]] < k[2] + Len(m.vertex_groups[k])
  /\ \A k1, k2 \in DOMAIN m.vertex_groups :
        (k1[1] = k2[1] /\ k1[2] < k2[2]) => k1[2] + Len(m.vertex_groups[k1]) <= k2[2]

\* the vertices of one bucket of m compare Equal
BucketsEqual(m, p) ==
  \A k \in DOMAIN m.vertex_groups : \A i, j \in 1..Len(m.vertex_groups[k]) :
     cmp_vertices(m, p, m.vertex_groups[k][i], m.vertex_groups[k][j]) = Equal

GroupingOk(p, most) ==
  \E t \in {PassesOf(p)} :
     /\ ~t[Len(t)].panicked
     /\ t[Len(t)].has_converged
     /\ Len(t) - 1 <= most
     /\ \A i \in 1..(Len(t) - 1) : PassInRange(t[i], t[i + 1])
     /\ BucketsEqual(t[Len(t)], p)

\* the pattern on which remove_vertex runs canonical_labeling
removed(p, vertex_id) ==
  FoldLeft(remove_adjacent_edge, remove_vertex_internal(p, vertex_id),
           adjacencies_iter(p, vertex_id))

\* the patterns canonical_labeling ran on in the last call: the pattern the
\* program holds and, after remove_vertex, the pattern left by the removal
\* (whether or not it is connected and handed back)
Canonicalised ==
  {pat} \cup (IF op = "remove_vertex" /\ ret.kind # "Panic" /\ arg \in DOMAIN prev.vertices
              THEN {removed(prev, arg)} ELSE {})

\* C24 as stated: vertex_grouping ends after as many calls of
\* refine_vertex_groups as the pattern has vertices at most, every pass keeps
\* the vertices of a bucket (label, g) of size s within the groups
\* g .. g + s - 1 so that the groups of two buckets never meet, and in the
\* end the vertices of one bucket compare Equal under cmp_vertices
C24_GroupingTerminates ==
  \A p \in Canonicalised : GroupingOk(p, Cardinality(DOMAIN p.vertices))

\* C24 amended: the same with one call for the pattern without vertices,
\* that is after max(1, V) calls at most
C24_GroupingTerminatesAmended ==
  \A p \in Canonicalised : GroupingOk(p, Max({1, Cardinality(DOMAIN p.vertices)}))

\* a grouping of three passes: two that split a bucket and the one that
\* changes no group
C24_Witness ==
  \E t \in {PassesOf(pat)} :
     /\ Len(t) - 1 = 3
     /\ t[Len(t)].has_converged
     /\ t[2].vertex_group_map # t[1].vertex_group_map
     /\ t[3].vertex_group_map # t[2].vertex_group_map

(* --------------------------- cost tuples ------------------------------- *)
\* the inputs of CostCount::from_extend, of CostCount::from_src_pattern and
\* of get_cost, the tuple of CostCount::max_value() among the last
ExtendInputs ==
  [kind : {"extend"}, sub_pattern_count : 0..MaxCount, pattern_count : 0..MaxCount,
   adjacency_count : 0..MaxCount, intersect_count : 0..MaxCount, extend_num : 0..MaxExtendNum]

SrcInputs == [kind : {"src"}, src_pattern_count : 0..MaxCount]

TupleInputs == [kind : {"tuple"}, cost : CostCounts \cup {CostCount_max_value}]

\* the program holds the arguments of one call
InitTuple ==
  /\ pat = Pattern_default /\ prev = Pattern_default /\ comps = <<>>
  /\ catalog = NoCatalogue
  /\ budget = 1
  /\ op = "inputs"
  /\ arg \in ExtendInputs \cup SrcInputs \cup TupleInputs
  /\ ret = ResNone

FromExtend ==
  /\ budget > 0 /\ arg.kind = "extend"
  /\ budget' = budget - 1
  /\ op' = "from_extend"
  /\ ret' = ResCost(from_extend(arg.sub_pattern_count, arg.pattern_count, arg.adjacency_count,
                                arg.intersect_count, arg.extend_num))
  /\ UNCHANGED <<pat, prev, arg, comps, catalog>>

FromSrcPattern ==
  /\ budget > 0 /\ arg.kind = "src"
  /\ budget' = budget - 1
  /\ op' = "from_src_pattern"
  /\ ret' = ResCost(from_src_pattern(arg.src_pattern_count))
  /\ UNCHANGED <<pat, prev, arg, comps, catalog>>

\* the scalar comes back in hundredths
GetCost ==
  /\ budget > 0 /\ arg.kind = "tuple"
  /\ budget' = budget - 1
  /\ op' = "get_cost"
  /\ ret' = [kind |-> "Scalar", cost |-> get_cost(arg.cost)]
  /\ UNCHANGED <<pat, prev, arg, comps, catalog>>

NextTuple == FromExtend \/ FromSrcPattern \/ GetCost

SpecTuple == InitTuple /\ [][NextTuple]_vars

\* what an f64 sum beyond f64::MAX gives, +inf
F64Inf == F64Max + 1

\* instance + alpha adjacency + beta intersect + w1 left_join + w1 right_join,
\* in hundredths; f64::MAX plus 0.15 f64::MAX is +inf
WeightedSum(c) ==
  IF c.instance_count = F64Max /\ c.adjacency_count = F64Max THEN F64Inf
  ELSE 100 * c.instance_count + ALPHA * c.adjacency_count + BETA * c.intersect_count
       + W1 * c.left_join_count + W1 * c.right_join_count

ExtendAndSourceTuples ==
  /\ op = "from_extend" =>
       /\ ret.cost.instance_count =
            arg.sub_pattern_count + arg.pattern_count
            + (IF arg.extend_num > 1 THEN arg.sub_pattern_count * arg.extend_num ELSE 0)
       /\ ret.cost.adjacency_count = (IF arg.extend_num > 1 THEN arg.adjacency_count ELSE 0)
       /\ ret.cost.intersect_count = arg.intersect_count
       /\ ret.cost.left_join_count = 0
       /\ ret.cost.right_join_count = 0
  /\ op = "from_src_pattern" =>
       ret.cost = [instance_count |-> arg.src_pattern_count, adjacency_count |-> 0,
                   intersect_count |-> 0, left_join_count |-> 0, right_join_count |-> 0]

\* C25 as stated: from_extend gives instance = sub_count + target_count
\* (+ sub_count times the arity when the arity exceeds 1), adjacency = the
\* adjacency estimate when the arity exceeds 1 and 0 otherwise, intersect =
\* the intersect estimate and both join counts 0; from_src_pattern gives
\* instance = count and 0 elsewhere; the scalar cost of every tuple is the
\* weighted sum of its components
C25_CostTuples ==
  /\ ExtendAndSourceTuples
  /\ op = "get_cost" => ret.cost = WeightedSum(arg.cost)

\* C25 amended: the same, the scalar cost being the weighted sum for every
\* tuple but the one of CostCount::max_value(), whose cost is f64::MAX
C25_CostTuplesAmended ==
  /\ ExtendAndSourceTuples
  /\ op = "get_cost" =>
       ret.cost = (IF arg.cost = CostCount_max_value THEN F64Max ELSE WeightedSum(arg.cost))

\* an extend step of two edges was costed
C25_Witness ==
  /\ op = "from_extend"
  /\ arg.extend_num = 2
  /\ arg.sub_pattern_count > 0
  /\ arg.adjacency_count > 0
  /\ ret.cost.instance_count = arg.sub_pattern_count * 3 + arg.pattern_count

(* ------------------------ binary-join step cost ------------------------ *)
\* the planner holds a catalogue with no memoized choice
InitJoin ==
  /\ pat = Pattern_default /\ comps = <<>>
  /\ budget = 1
  /\ op = "catalogue" /\ arg = <<>> /\ ret = ResNone
  /\ catalog \in Catalogues(MaxApproaches, CountValues)
  /\ prev = catalog

\* the cost of one binary-join approach of the catalogue is estimated; the
\* search of the probe side memoizes in the catalogue
EstimateBinaryJoinStepCost ==
  \E approach \in DOMAIN catalog.approaches :
    /\ budget > 0
    /\ catalog.approaches[approach].kind = "BinaryJoinStep"
    /\ \E r \in {estimate_binary_join_step_cost(catalog, approach)} :
         /\ catalog' = r.catalog
         /\ ret' = [kind |-> r.kind, approach |-> r.approach, cost |-> r.cost]
    /\ budget' = budget - 1
    /\ prev' = catalog
    /\ op' = "estimate_binary_join_step_cost"
    /\ arg' = approach
    /\ UNCHANGED <<pat, comps>>

NextJoin == EstimateBinaryJoinStepCost

SpecJoin == InitJoin /\ [][NextJoin]_vars

\* C26: the cost of a binary-join approach is the best cost of the probe
\* pattern plus, component by component, the join step with instance =
\* target count, left_join = build count and right_join = probe count
C26_BinaryJoinCost ==
  (op = "estimate_binary_join_step_cost" /\ ret.kind = "Ok") =>
    \E probe \in {set_node_best_approach_recursively(
                     prev, prev.approaches[arg].probe_pattern_node_index)} :
       LET w == prev.approaches[arg]
           build_count == prev.nodes[w.src_pattern_index].count
           probe_count == prev.nodes[w.probe_pattern_node_index].count
           target_count == prev.nodes[w.target_pattern_index].count
       IN /\ ret.cost.instance_count = probe.cost.instance_count + target_count
          /\ ret.cost.adjacency_count = probe.cost.adjacency_count
          /\ ret.cost.intersect_count = probe.cost.intersect_count
          /\ ret.cost.left_join_count = probe.cost.left_join_count + build_count
          /\ ret.cost.right_join_count = probe.cost.right_join_count + probe_count

(* ------------------------- the simple extend plan ---------------------- *)
vertex_has_predicate(pattern, vertex_id) ==
  pattern.vertices_data[vertex_id].predicate # None

get_adj_edges_filter_num(pattern, vertex_id) ==
  Len(SelectSeq(adjacencies_iter(pattern, vertex_id),
                LAMBDA adj : pattern.edges_data[adj.edge_id].predicate # None))

\* the tuple sort_vertex_ids compares, false before true
VertexSortKey(pattern, v) ==
  <<IF vertex_has_predicate(pattern, v) THEN 1 ELSE 0,
    get_adj_edges_filter_num(pattern, v),
    get_vertex_degree(pattern, v),
    get_vertex_out_degree(pattern, v)>>

\* slice::sort_by is stable
sort_vertex_ids(vertex_ids, pattern) ==
  LET c(v1_id, v2_id) == cmp_tuple(VertexSortKey(pattern, v1_id), VertexSortKey(pattern, v2_id))
  IN StableSort(vertex_ids, c)

\* the step that extends the pattern without the target vertex by the
\* target vertex along all its adjacencies
DefiniteExtendStep_from_target_pattern(pattern, target_vertex_id) ==
  [target_vertex |-> pattern.vertices[target_vertex_id],
   extend_edges |-> Vec([i \in 1..Len(adjacencies_iter(pattern, target_vertex_id)) |->
                          LET adj == adjacencies_iter(pattern, target_vertex_id)[i]
                          IN [src_vertex |-> adj.adj_vertex, edge_id |-> adj.edge_id,
                              edge_label |-> adj.edge_label,
                              direction |-> IF adj.direction = Out THEN In ELSE Out]])]

\* the loop of generate_simple_extend_match_plan: the steps recorded so far
\* and the pattern left, or the panic of remove_vertex(..).unwrap()
RECURSIVE simple_extend_steps(_, _)
simple_extend_steps(trace_pattern, definite_extend_steps) ==
  IF get_vertices_num(trace_pattern) <= 1
  THEN [kind |-> "Ok", steps |-> definite_extend_steps, pattern |-> trace_pattern]
  ELSE Only({
         Only({IF r.kind # "Some"
               THEN [kind |-> "Panic", steps |-> definite_extend_steps, pattern |-> trace_pattern]
               ELSE simple_extend_steps(
                      r.pattern,
                      Append(definite_extend_steps,
                             DefiniteExtendStep_from_target_pattern(trace_pattern,
                                                                    select_vertex_id)))
               : r \in {remove_vertex(trace_pattern, select_vertex_id)}})
         : select_vertex_id \in
             {sort_vertex_ids(SortedSeq(DOMAIN trace_pattern.vertices), trace_pattern)[1]}})

\* the plan is given by the steps in the order in which it runs them: the
\* builders take the source step from the end and the others from last to
\* first
generate_simple_extend_match_plan(pattern) ==
  Only({IF traced.kind = "Panic" \/ get_vertices_num(traced.pattern) # 1
        THEN [kind |-> traced.kind, removed |-> traced.steps, plan |-> <<>>]
        ELSE [kind |-> "Ok", removed |-> traced.steps,
              plan |-> <<DefiniteExtendStep_try_from(traced.pattern)>> \o Reverse(traced.steps)]
        : traced \in {simple_extend_steps(pattern, <<>>)}})

\* a connected pattern built by Pattern::try_from, with predicates on some
\* of its vertices and edges
InitSimple ==
  /\ \E edges \in EdgeLists(MaxInput) :
       \E built \in {try_from(edges)} :
          /\ built.kind = "Some"
          /\ is_connected(built.pattern)
          /\ \E vs \in SUBSET DOMAIN built.pattern.vertices,
                es \in SUBSET DOMAIN built.pattern.edges :
               /\ arg = [edges |-> edges, vertex_predicates |-> vs, edge_predicates |-> es]
               /\ pat = FoldLeft(LAMBDA p, e : set_edge_predicate(p, e, 0),
                                 FoldLeft(LAMBDA p, v : set_vertex_predicate(p, v, 0),
                                          built.pattern, SortedSeq(vs)),
                                 SortedSeq(es))
  /\ op = "from_edges"
  /\ ret = ResSome(pat)
  /\ prev = Pattern_default
  /\ comps = <<>>
  /\ catalog = NoCatalogue
  /\ budget = 1

GenerateSimpleExtendMatchPlan ==
  /\ budget > 0
  /\ budget' = budget - 1
  /\ op' = "generate_simple_extend_match_plan"
  /\ ret' = generate_simple_extend_match_plan(pat)
  /\ prev' = pat
  /\ UNCHANGED <<pat, arg, comps, catalog>>

NextSimple == GenerateSimpleExtendMatchPlan

SpecSimple == InitSimple /\ [][NextSimple]_vars

\* the steps remove, one after the other, a vertex of p that no vertex
\* precedes under the tuple, and every removal leaves a connected pattern
RECURSIVE MinimalRemovals(_, _)
MinimalRemovals(p, steps) ==
  \/ steps = <<>>
  \/ /\ steps[1].target_vertex.id \in DOMAIN p.vertices
     /\ \A u \in DOMAIN p.vertices :
          cmp_tuple(VertexSortKey(p, steps[1].target_vertex.id), VertexSortKey(p, u)) # Greater
     /\ \E r \in {remove_vertex(p, steps[1].target_vertex.id)} :
          r.kind = "Some" /\ MinimalRemovals(r.pattern, Tail(steps))

\* C27: for a connected pattern of two or more vertices, whatever vertices
\* and edges carry predicates, the plan removes V - 1 times the vertex that
\* is least under (has predicate, incident edges with predicates, degree,
\* out degree), every removal leaves a connected pattern, and the plan runs
\* the recorded steps in reverse after the scan of the last vertex
C27_SimplePlan ==
  (op = "generate_simple_extend_match_plan" /\ get_vertices_num(pat) >= 2) =>
    /\ ret.kind = "Ok"
    /\ Len(ret.removed) = get_vertices_num(pat) - 1
    /\ MinimalRemovals(pat, ret.removed)
    /\ Len(ret.plan) = get_vertices_num(pat)
    /\ \A i \in 1..Len(ret.removed) : ret.plan[i + 1] = ret.removed[Len(ret.removed) + 1 - i]

(* --------------------------- stride sampling --------------------------- *)
\* C28: without a limit, sample_records of n records at the rate r returns
\* m = floor(n r) records, the records at the indices 0, s, 2s, ...,
\* (m - 1) s of the vector with s = max(1, floor(n / m)), in that order
C28_StrideSampling ==
  (op = "sample_records" /\ arg.limit = None) =>
    LET n == Len(arg.records)
        m == (n * arg.rate) \div RateDen
        s == IF m = 0 THEN 1 ELSE Max({1, n \div m})
    IN /\ Len(ret.records) = m
       /\ \A i \in 1..m : ret.records[i] = arg.records[(i - 1) * s + 1]
       /\ \A i, j \in 1..m : i < j => ret.records[i] # ret.records[j]

\* two records or more were taken with a stride of two or more
C28_Witness ==
  /\ op = "sample_records" /\ arg.limit = None
  /\ Len(ret.records) >= 2
  /\ Len(arg.records) >= 2 * Len(ret.records)
  /\ ret.records[2] # arg.records[2]

(* ------------------- vertex labels from the sentences ------------------ *)
\* join_id_label_maps that joins every pair of maps
join_id_label_maps_cross(left_maps, right_maps, is_start) ==
  IF left_maps = <<>> \/ right_maps = <<>>
  THEN IF is_start
       THEN [kind |-> "Maps", maps |-> IF left_maps = <<>> THEN right_maps ELSE left_maps,
             is_start |-> FALSE]
       ELSE [kind |-> "Maps", maps |-> <<>>, is_start |-> is_start]
  ELSE [kind |-> "Maps",
        maps |-> Flatten(Vec([i \in 1..Len(left_maps) |->
                   Vec([j \in 1..Len(right_maps) |-> right_maps[j] @@ left_maps[i]])])),
        is_start |-> is_start]

\* the maps joined over the keys taken from the first map of each list,
\* every map of the shorter list with every map of the other; looking up a
\* join key that a map does not hold panics
join_id_label_maps(left_maps, right_maps, is_start) ==
  IF left_maps = <<>> \/ right_maps = <<>>
  THEN IF is_start
       THEN [kind |-> "Maps", maps |-> IF left_maps = <<>> THEN right_maps ELSE left_maps,
             is_start |-> FALSE]
       ELSE [kind |-> "Maps", maps |-> <<>>, is_start |-> is_start]
  ELSE LET lefts == IF Len(left_maps) > Len(right_maps) THEN right_maps ELSE left_maps
           rights == IF Len(left_maps) > Len(right_maps) THEN left_maps ELSE right_maps
           join_keys == DOMAIN lefts[1] \cap DOMAIN rights[1]
           matches(left_map, right_map) ==
             \A key \in join_keys : left_map[key] = right_map[key]
           new_map(left_map, right_map) ==
             Map([key \in DOMAIN left_map \cup DOMAIN right_map |->
                    IF key \in DOMAIN right_map THEN right_map[key] ELSE left_map[key]])
           joined_with(left_map) ==
             LET kept == SelectSeq(rights, LAMBDA right_map : matches(left_map, right_map))
             IN Vec([j \in 1..Len(kept) |-> new_map(left_map, kept[j])])
       IN IF \E i \in 1..Len(lefts) : ~(join_keys \subseteq DOMAIN lefts[i])
             \/ \E j \in 1..Len(rights) : ~(join_keys \subseteq DOMAIN rights[j])
          THEN [kind |-> "Panic", maps |-> <<>>, is_start |-> is_start]
          ELSE [kind |-> "Maps",
                maps |-> Flatten(Vec([i \in 1..Len(lefts) |-> joined_with(lefts[i])])),
                is_start |-> is_start]

\* lists of one or two maps from vertex ids to labels: the lists whose maps
\* all have the same one or two ids, as the maps of one edge expansion or of one
\* predicate have, and the lists of maps over the ids 0 and 1 whatever ids
\* each map has
IdLabelMaps ==
  UNION {{Vec(l) : l \in UNION {[1..n -> [K -> VLabels]] : n \in 1..MaxJoinLen}}
         : K \in {S \in SUBSET VIds : Cardinality(S) \in 1..2}}
  \cup UNION {[1..n -> UNION {[K -> VLabels] : K \in (SUBSET (0..1)) \ {{}}}]
              : n \in 1..MaxJoinLen}
  \cup {<<>>}

\* the parser between two binders: is_start is set until a join has met an
\* empty list
InitJoinMaps ==
  /\ pat = Pattern_default /\ prev = Pattern_default /\ comps = <<>>
  /\ catalog = NoCatalogue
  /\ budget = 1
  /\ op = "from_pb"
  /\ arg = <<>>
  /\ \E is_start \in BOOLEAN : ret = [kind |-> "Maps", maps |-> <<>>, is_start |-> is_start]

JoinIdLabelMaps ==
  \E left_maps \in IdLabelMaps, right_maps \in IdLabelMaps :
    /\ budget > 0 /\ ret.kind = "Maps"
    /\ budget' = budget - 1
    /\ op' = "join_id_label_maps"
    /\ arg' = [left_maps |-> left_maps, right_maps |-> right_maps, is_start |-> ret.is_start]
    /\ ret' = join_id_label_maps(left_maps, right_maps, ret.is_start)
    /\ UNCHANGED <<pat, prev, comps, catalog>>

NextJoinMaps == JoinIdLabelMaps

SpecJoinMaps == InitJoinMaps /\ [][NextJoinMaps]_vars

Agree(l, r) == \A k \in DOMAIN l \cap DOMAIN r : l[k] = r[k]

Elements(seq) == {seq[i] : i \in DOMAIN seq}

\* all the maps of the list have the same ids
SameIds(maps) == \A i, j \in DOMAIN maps : DOMAIN maps[i] = DOMAIN maps[j]

\* the result of the last call is the natural join of its lists, and the one
\* of the lists in the other order
IsNaturalJoin ==
  /\ ret.kind = "Maps"
  /\ Elements(ret.maps) =
       {x[1] @@ x[2] : x \in {y \in Elements(arg.left_maps) \X Elements(arg.right_maps) :
                                Agree(y[1], y[2])}}
  /\ Len(ret.maps) =
       Cardinality({x \in (DOMAIN arg.left_maps) \X (DOMAIN arg.right_maps) :
                      Agree(arg.left_maps[x[1]], arg.right_maps[x[2]])})
  /\ Elements(join_id_label_maps(arg.right_maps, arg.left_maps, arg.is_start).maps)
       = Elements(ret.maps)
  /\ ret.is_start = arg.is_start

\* with an empty list the other list comes back if is_start is set, which
\* is cleared, and the empty list if it is not
EmptyArgument ==
  /\ ret.kind = "Maps"
  /\ ret.is_start = FALSE
  /\ ret.maps = (IF ~arg.is_start THEN <<>>
                 ELSE IF arg.left_maps = <<>> THEN arg.right_maps ELSE arg.left_maps)

\* C29 as stated: of two lists that are not empty, join_id_label_maps
\* returns one map, the union of the two, for every pair of a left and a
\* right map that agree on the ids both hold, and no other map, the same
\* maps when the lists change places; when a list is empty it returns the
\* other list if is_start is set, and clears it, and the empty list if not
C29_NaturalJoin ==
  op = "join_id_label_maps" =>
    IF arg.left_maps # <<>> /\ arg.right_maps # <<>> THEN IsNaturalJoin ELSE EmptyArgument

\* C29 amended: the same for lists in each of which all maps have the same
\* vertex ids
C29_NaturalJoinSameIds ==
  op = "join_id_label_maps" =>
    IF arg.left_maps # <<>> /\ arg.right_maps # <<>>
    THEN (SameIds(arg.left_maps) /\ SameIds(arg.right_maps)) => IsNaturalJoin
    ELSE EmptyArgument

\* two maps out of four pairs were joined on a shared id
C29_Witness ==
  /\ op = "join_id_label_maps"
  /\ ~arg.is_start
  /\ Len(arg.left_maps) = 2 /\ Len(arg.right_maps) = 2
  /\ Len(ret.maps) = 2
  /\ DOMAIN arg.left_maps[1] \cap DOMAIN arg.right_maps[1] # {}
  /\ DOMAIN arg.left_maps[1] # DOMAIN arg.right_maps[1]

(* ---------------------- the search run a second time -------------------- *)
\* the planner holds a catalogue with no memoized choice and searches twice
InitAgain ==
  /\ pat = Pattern_default /\ comps = <<>>
  /\ budget = 2
  /\ op = "catalogue" /\ arg = <<>> /\ ret = ResNone
  /\ catalog \in Catalogues(MaxApproaches, CountValues)
  /\ prev = catalog

\* the first search
SetBestApproachFirst == budget = 2 /\ SetBestApproachByPattern

\* set_best_approach_by_pattern called once more for the same pattern, after
\* a search that succeeded; the result of the first search is kept aside
SetBestApproachAgain ==
  /\ budget = 1 /\ op = "set_best_approach_by_pattern" /\ ret.kind = "Ok"
  /\ \E r \in {set_best_approach_by_pattern(catalog, arg)} :
       /\ catalog' = r.catalog
       /\ ret' = [kind |-> r.kind, approach |-> r.approach, cost |-> r.cost]
  /\ budget' = budget - 1
  /\ prev' = catalog
  /\ op' = "set_best_approach_by_pattern_again"
  /\ arg' = [node_index |-> arg, approach |-> ret.approach, cost |-> ret.cost]
  /\ UNCHANGED <<pat, comps>>

NextAgain == SetBestApproachFirst \/ SetBestApproachAgain

SpecAgain == InitAgain /\ [][NextAgain]_vars

\* the catalogue c with no memoized choice
Unmemoized(c) ==
  [c EXCEPT !.nodes = Map([n \in DOMAIN c.nodes |-> [c.nodes[n] EXCEPT !.best_approach = None]])]

\* C30: a second set_best_approach_by_pattern for the same pattern leaves the
\* memoized approach of every node as it was, returns the approach and the
\* cost of the first, and the cost that the memoized branch computes for a
\* node is the cost of the search that chooses the node's approach
C30_MemoIdempotent ==
  op = "set_best_approach_by_pattern_again" =>
    /\ ret.kind = "Ok"
    /\ catalog = prev
    /\ ret.approach = arg.approach
    /\ ret.cost = arg.cost
    /\ \A n \in Visited(catalog) :
         \E memoized \in {set_node_best_approach_recursively(catalog, n)},
            first \in {set_node_best_approach_recursively(Unmemoized(catalog), n)} :
            /\ memoized.kind = "Ok" /\ first.kind = "Ok"
            /\ memoized.approach = first.approach
            /\ memoized.cost = first.cost

\* the pattern searched for twice is produced by a binary join
C30_Witness ==
  /\ op = "set_best_approach_by_pattern_again"
  /\ ret.kind = "Ok"
  /\ ret.approach # None
  /\ catalog.approaches[ret.approach].kind = "BinaryJoinStep"
  /\ ret.cost.left_join_count > 0
====
